---------------------------- MODULE Spec2Model ----------------------------
(***************************************************************************)
(* A model of kash-media's Wikipedia candidate resolver                    *)
(* (src/kash/kits/media/libs/wiki/wiki_search.py).                         *)
(*                                                                         *)
(* Representation of numbers.  Python floats are modelled by integers on   *)
(* fixed grids, so that every comparison of the code is an exact integer   *)
(* comparison:                                                             *)
(*   - math.log1p(n)       in thousandths         (Log1p)                  *)
(*   - notability scores   in ten-thousandths     (4.0  is  40000)         *)
(*   - title scores        in halves              (100.0 is 200)           *)
(*   - total scores        in two-millionths      (6.0  is  12000000),     *)
(*     that is title (halves) * notability (1e-4) / 100.                   *)
(* Strings are sequences of one-character strings.                         *)
(***************************************************************************)
EXTENDS Integers, Sequences, FiniteSets, TLC

VARIABLES
    pc,                     \* "start": arguments chosen; "done": call returned or raised
    concept,                \* argument concept
    pages,                  \* argument pages (a list of WikipediaPage objects)
    min_notability_score,   \* argument
    min_title_score,        \* argument
    unambiguous_threshold,  \* argument
    unambiguous_cutoff,     \* argument
    result,                 \* what the call produced
    \* one call of calculate_notability_score
    sc_pc,                  \* "idle", "start" or "done"
    sc_page,                \* argument page
    sc_out,                 \* what the call produced
    \* one call of wiki_title_score
    ts_pc,                  \* "idle", "start" or "done"
    ts_query,               \* argument concept
    ts_title,               \* page.title of the argument page
    ts_out,                 \* the score returned, in halves
    \* successive calls of assemble_search_results on the same candidates
    rp_pages,               \* the candidate list handed to every call
    rp_cached,              \* ids of the candidates holding fetched properties
    rp_results,             \* what each call so far produced
    rp_net,                 \* per call, whether the network could be reached
    \* one call of wiki_article_search_api, with its retries
    f_pc,                   \* "idle", "running", "returned" or "failed"
    f_history,              \* the upstream response of each attempt so far
    f_value,                \* the list the call returned
    \* one call of ApplePodcasts.get_media_id
    ap_pc,                  \* "idle", "start" or "done"
    ap_url,                 \* argument url
    ap_out,                 \* the media id returned, or None
    ap_canon,               \* what canonicalize_and_type returned, or None
    \* one call of find_dns_for_cf
    d_pc,                   \* "idle", "zones", "records" or "returned"
    d_zones,                \* hosted zones met so far
    d_records,              \* records read in the zone being scanned
    d_found,                \* found_dns_names
    d_errors,               \* the ClientErrors caught so far
    d_result,               \* the list returned
    \* one call of map_s3_urls_to_public_urls
    m_pc,                   \* "idle", "start" or "done"
    m_urls,                 \* argument s3_urls
    m_aws,                  \* what CloudFront and Route 53 hold
    m_calls,                \* the buckets find_dns_names_for_s3_bucket was called with
    m_out,                  \* the dictionary returned
    \* one call of identify_speakers
    sp_pc,                  \* "idle", "start", "labelled", "returned" or "raised"
    sp_given,               \* argument item as it was when the call was made
    sp_item,                \* argument item
    sp_labels,              \* what find_speaker_labels returned
    sp_completions,         \* number of LLM completions made
    sp_out,                 \* the item returned, or the error raised
    \* one call of insert_frame_captures
    fr_pc,                  \* "idle", "start", "captured", "returned" or "raised"
    fr_given,               \* argument item as it was when the call was made
    fr_item,                \* argument item
    fr_frames,              \* frame_paths, as capture_frames returned them
    fr_kept,                \* what filter_similar_frames returned
    fr_out                  \* the item returned

\* The variables of the call of assemble_search_results.
wikiVars == <<pc, concept, pages, min_notability_score, min_title_score,
              unambiguous_threshold, unambiguous_cutoff, result>>

\* The variables of the call of calculate_notability_score.
scVars == <<sc_pc, sc_page, sc_out>>

\* The variables of the call of wiki_title_score.
tsVars == <<ts_pc, ts_query, ts_title, ts_out>>

\* The variables of the successive calls of assemble_search_results.
rpVars == <<rp_pages, rp_cached, rp_results, rp_net>>

\* The variables of the call of wiki_article_search_api.
fVars == <<f_pc, f_history, f_value>>

\* The variables of the call of get_media_id.
apVars == <<ap_pc, ap_url, ap_out, ap_canon>>

dnsVars == <<d_pc, d_zones, d_records, d_found, d_errors, d_result>>
mapVars == <<m_pc, m_urls, m_aws, m_calls, m_out>>
spVars == <<sp_pc, sp_given, sp_item, sp_labels, sp_completions, sp_out>>
frVars == <<fr_pc, fr_given, fr_item, fr_frames, fr_kept, fr_out>>

vars == <<wikiVars, scVars, tsVars, rpVars, fVars, apVars, dnsVars, mapVars, spVars, frVars>>

-----------------------------------------------------------------------------
(* Bounds *)

\* Longest candidate list handed to assemble_search_results.
MaxPages == 3

\* Longest query and longest title handed to wiki_title_score on its own.
MaxTitleLen == 3

\* Most calls of assemble_search_results made on the same candidate objects.
MaxCalls == 3

\* Most search hits in one upstream response.
MaxHits == 2

\* Most parameters in the query string of a URL.
MaxParams == 2

\* Most hosted zones and most records of one zone listed by Route 53.
MaxZones == 2
MaxRecords == 2

\* Longest list s3_urls handed to map_s3_urls_to_public_urls.
MaxUrls == 2

\* The longest transcript body, in characters.
MaxBodyLen == 2

\* Most word tokens of a body with timestamps.
MaxToks == 3

-----------------------------------------------------------------------------
(* Strings *)

UpperChars == <<"A","B","C","D","E","F","G","H","I","J","K","L","M",
                "N","O","P","Q","R","S","T","U","V","W","X","Y","Z">>
LowerChars == <<"a","b","c","d","e","f","g","h","i","j","k","l","m",
                "n","o","p","q","r","s","t","u","v","w","x","y","z">>

\* str.lower() on one character.
LowerChar(c) ==
    IF \E i \in 1..Len(UpperChars) : UpperChars[i] = c
    THEN LowerChars[CHOOSE i \in 1..Len(UpperChars) : UpperChars[i] = c]
    ELSE c

\* str.lower()
Lower(s) == SubSeq([i \in 1..Len(s) |-> LowerChar(s[i])], 1, Len(s))

\* Python's  sub in s  for strings.
Contains(sub, s) ==
    \E k \in 0..(Len(s) - Len(sub)) :
        \A j \in 1..Len(sub) : s[k + j] = sub[j]

StrDisambiguation == <<"d","i","s","a","m","b","i","g","u","a","t","i","o","n">>
StrListOf == <<"l","i","s","t"," ","o","f">>

\* "disambiguation" in title.lower()
IsDisambiguationTitle(title) == Contains(StrDisambiguation, Lower(title))

\* "list of" in title.lower()
IsListTitle(title) == Contains(StrListOf, Lower(title))

-----------------------------------------------------------------------------
(* Notability *)

\* math.log1p(n) in thousandths, rounded, for the counts the candidates use.
Log1p(n) ==
    CASE n = 0     -> 0
      [] n = 5     -> 1792
      [] n = 10    -> 2398
      [] n = 200   -> 5303
      [] n = 500   -> 6217
      [] n = 5000  -> 8517
      [] n = 50000 -> 10820
      [] n = 90000 -> 11408

\* Variant of NotabilityIsZero that needs both conditions ("and" for "or").
NotabilityIsZeroNeedingBoth(page) == ~page.exists /\ page.namespace # "MAIN"

\* Variant of NotabilityIsZero that returns early for the namespaces it knows
\* only.
NotabilityIsZeroKnownOnly(page) == ~page.exists \/ page.namespace = "OTHER"

\* The early return of calculate_notability_score: no property of the page is
\* fetched for a page that does not exist or is outside the main namespace.
NotabilityIsZero(page) == ~page.exists \/ page.namespace # "MAIN"

\* calculate_notability_score raises when fetching backlinks, langlinks or
\* length fails (the try block re-raises).
NotabilityRaises(page) == ~NotabilityIsZero(page) /\ ~page.props_ok

\* page.length of a page whose length is missing (Python's None).
NoLength == -1

\* page.length or 0
LengthOrZero(length) == IF length = NoLength THEN 0 ELSE length

\* Variant of calculate_notability_score that subtracts the length term.
calculate_notability_score_minus_length(page) ==
    IF NotabilityIsZero(page)
    THEN 0
    ELSE Log1p(page.backlinks) * 5 + Log1p(page.langlinks) * 4
             - Log1p(LengthOrZero(page.length)) * 1

\* Variant of calculate_notability_score with the weights of backlinks and
\* langlinks exchanged.
calculate_notability_score_weights_swapped(page) ==
    IF NotabilityIsZero(page)
    THEN 0
    ELSE Log1p(page.backlinks) * 4 + Log1p(page.langlinks) * 5
             + Log1p(LengthOrZero(page.length)) * 1

\* The value calculate_notability_score returns, in ten-thousandths.
calculate_notability_score(page) ==
    IF NotabilityIsZero(page)
    THEN 0
    ELSE Log1p(page.backlinks) * 5 + Log1p(page.langlinks) * 4
             + Log1p(LengthOrZero(page.length)) * 1

-----------------------------------------------------------------------------
(* Title matching: thefuzz's ratio and partial_ratio *)

Max2(a, b) == IF a >= b THEN a ELSE b
Min2(a, b) == IF a <= b THEN a ELSE b

SetMax(S) == CHOOSE x \in S : \A y \in S : y <= x

\* One row of the longest-common-subsequence table: prev[j] is the length for
\* the characters of a read so far and the first j characters of b, and the
\* result is the same for one more character c of a.  With
\*   step[k] = prev[k - 1] + 1 if c = b[k], and prev[k] otherwise,
\* the usual recurrence (a match extends the diagonal, a mismatch takes the
\* larger neighbour) gives the running maximum of step.
LcsRow(prev, c, b) ==
    LET step == SubSeq([k \in 1..Len(b) |->
                           IF c = b[k]
                           THEN (IF k = 1 THEN 0 ELSE prev[k - 1]) + 1
                           ELSE prev[k]], 1, Len(b))
    IN  SubSeq([j \in 1..Len(b) |-> SetMax({ step[k] : k \in 1..j })], 1, Len(b))

RECURSIVE LcsRows(_, _, _)
LcsRows(a, b, i) ==
    IF i = 0
    THEN SubSeq([j \in 1..Len(b) |-> 0], 1, Len(b))
    ELSE LcsRow(LcsRows(a, b, i - 1), a[i], b)

\* The length of the longest common subsequence of a and b.
LcsLen(a, b) == IF Len(b) = 0 THEN 0 ELSE LcsRows(a, b, Len(a))[Len(b)]

\* int(round(x / d)) with Python's round-half-to-even.
RoundDiv(x, d) ==
    LET q == x \div d
        r == x % d
    IN  IF 2 * r > d THEN q + 1
        ELSE IF 2 * r = d THEN q + (q % 2)
        ELSE q

\* fuzz.ratio: the normalised indel similarity, as a rounded percentage.
FuzzRatio(a, b) ==
    IF Len(a) + Len(b) = 0
    THEN 100
    ELSE RoundDiv(200 * LcsLen(a, b), Len(a) + Len(b))

\* The alignments partial_ratio tries: the needle against every window of the
\* longer string of the needle's length, and against its shorter prefixes and
\* suffixes.
Windows(s, m) ==
    { SubSeq(s, Max2(1, i - m + 1), Min2(i, Len(s))) : i \in 1..(Len(s) + m - 1) }

BestWindow(needle, hay) ==
    LET scores == { FuzzRatio(needle, w) : w \in Windows(hay, Len(needle)) }
    IN  CHOOSE x \in scores : \A y \in scores : y <= x

\* fuzz.partial_ratio
FuzzPartialRatio(a, b) ==
    IF Len(a) = 0 \/ Len(b) = 0
    THEN (IF Len(a) + Len(b) = 0 THEN 100 ELSE 0)
    ELSE IF Len(a) < Len(b) THEN BestWindow(a, b)
    ELSE IF Len(b) < Len(a) THEN BestWindow(b, a)
    ELSE Max2(BestWindow(a, b), BestWindow(b, a))

\* 0.5 * fuzz.ratio(s1, s2) + 0.5 * fuzz.partial_ratio(s1, s2), in halves.
TitleScore(s1, s2) == FuzzRatio(s1, s2) + FuzzPartialRatio(s1, s2)

\* Variant of TitleScoreOf that lower-cases the query only.
TitleScoreOfRawTitle(query, title) == TitleScore(Lower(query), title)

\* The body of wiki_title_score on a query and a page title.
TitleScoreOf(query, title) == TitleScore(Lower(query), Lower(title))

-----------------------------------------------------------------------------
(* The candidates and concepts the calls are made with *)

\* A WikipediaPage object: id stands for the object's identity; props_ok says
\* whether fetching backlinks, langlinks and length succeeds.
WikipediaPage(id, title, exists, namespace, props_ok, backlinks, langlinks, length) ==
    [id |-> id, title |-> title, exists |-> exists, namespace |-> namespace,
     props_ok |-> props_ok, backlinks |-> backlinks, langlinks |-> langlinks,
     length |-> length]

TitlePython       == <<"P","y","t","h","o","n">>
TitlePythons      == <<"P","y","t","h","o","n","s">>
TitleMontyPython  == <<"M","o","n","t","y"," ","P","y","t","h","o","n">>
TitleDisambig     == <<"P","y","t","h","o","n"," ","(","d","i","s","a","m","b",
                       "i","g","u","a","t","i","o","n",")">>
TitleDisambigCaps == <<"P","Y","T","H","O","N"," ","(","D","I","S","A","M","B",
                       "I","G","U","A","T","I","O","N",")">>
TitleListOf       == <<"L","i","s","t"," ","o","f"," ","p","y","t","h","o","n","s">>
TitleListDisambig == <<"L","i","s","t"," ","o","f"," ","p","y","t","h","o","n","s",
                       " ","(","d","i","s","a","m","b","i","g","u","a","t","i","o","n",")">>

PagePython        == WikipediaPage(1, TitlePython,       TRUE,  "MAIN",  TRUE,  50000, 200, 90000)
PagePythons       == WikipediaPage(2, TitlePythons,      TRUE,  "MAIN",  TRUE,  500,   10,  5000)
PageMontyPython   == WikipediaPage(3, TitleMontyPython,  TRUE,  "MAIN",  TRUE,  50000, 200, 90000)
PageDisambig      == WikipediaPage(4, TitleDisambig,     TRUE,  "MAIN",  TRUE,  10,    5,   500)
PageDisambigCaps  == WikipediaPage(5, TitleDisambigCaps, TRUE,  "MAIN",  FALSE, 0,     0,   0)
PageListOf        == WikipediaPage(6, TitleListOf,       TRUE,  "MAIN",  TRUE,  50000, 200, 90000)
PageOtherSpace    == WikipediaPage(7, TitlePython,       TRUE,  "OTHER", FALSE, 50000, 200, 90000)
PageObscure       == WikipediaPage(8, TitlePythons,      TRUE,  "MAIN",  TRUE,  10,    5,   500)
PageUnreachable   == WikipediaPage(9, TitleMontyPython,  TRUE,  "MAIN",  FALSE, 0,     0,   0)
PageUnknownSpace  == WikipediaPage(10, TitlePython,      TRUE,  "UNKNOWN", TRUE, 50000, 200, 90000)
PageListDisambig  == WikipediaPage(11, TitleListDisambig, FALSE, "OTHER", FALSE, 0,     0,   0)

AllPages == {PagePython, PagePythons, PageMontyPython, PageDisambig, PageDisambigCaps,
             PageListOf, PageOtherSpace, PageObscure, PageUnreachable, PageUnknownSpace,
             PageListDisambig}

Concepts == { TitlePython, <<"m","o","n","t","y"," ","p","y","t","h","o","n">> }

Titles == { p.title : p \in AllPages }

\* The title score of every concept against every title, computed once.
TitleScoreTable ==
    { <<c, t, TitleScoreOf(c, t)>> : c \in Concepts, t \in Titles }

\* The titles classified as disambiguation pages and as list pages, computed
\* once.
DisambiguationTitles == UNION { IF IsDisambiguationTitle(t) THEN {t} ELSE {} : t \in Titles }
ListTitles == UNION { IF IsListTitle(t) THEN {t} ELSE {} : t \in Titles }

wiki_is_disambiguation_page(page) == page.title \in DisambiguationTitles

wiki_is_list_page(page) == page.title \in ListTitles

\* wiki_title_score, in halves.
wiki_title_score(query, page) ==
    (CHOOSE e \in TitleScoreTable : e[1] = query /\ e[2] = page.title)[3]

-----------------------------------------------------------------------------
(* Result records *)

\* Python's None, for disambiguation_page.
None == [id |-> 0]

\* WikiPageResult(page=page, title_score=...): a frozen dataclass, compared by
\* value; a WikipediaPage is compared by identity, which the page's id stands
\* for.
WikiPageResult(page, title_score) == [page |-> page, title_score |-> title_score]

\* WikiPageResult.notability_score, in ten-thousandths.
notability_score(r) == calculate_notability_score(r.page)

\* WikiPageResult.total_score, in two-millionths:
\* title_score * notability_score / 100.0
total_score(r) == r.title_score * notability_score(r)

\* WikiSearchResults(...), and raised = TRUE for a call that raised instead.
WikiSearchResults(is_unambiguous, disambiguation_page, results) ==
    [raised               |-> FALSE,
     has_unambigous_match |-> is_unambiguous,
     disambiguation_page  |-> disambiguation_page,
     page_results         |-> results]

Raised ==
    [raised               |-> TRUE,
     has_unambigous_match |-> FALSE,
     disambiguation_page  |-> None,
     page_results         |-> <<>>]

\* Variant of ResultIsTruthy that also counts a recorded disambiguation page.
ResultIsTruthyWithDisambiguation(res) ==
    Len(res.page_results) > 0 \/ res.disambiguation_page # None

\* WikiSearchResults.__bool__
ResultIsTruthy(res) == Len(res.page_results) > 0

-----------------------------------------------------------------------------
(* assemble_search_results *)

\* The loop state before the first candidate.
EmptyAcc == [results |-> <<>>, disambiguation_page |-> None, raised |-> FALSE]

\* Variant of FilterStep without the list-page exclusion.
FilterStepKeepingListPages(query, page, min_notability, acc) ==
    IF wiki_is_disambiguation_page(page)
    THEN [acc EXCEPT !.disambiguation_page = IF @ = None THEN page ELSE @]
    ELSE IF NotabilityRaises(page)
    THEN [acc EXCEPT !.raised = TRUE]
    ELSE IF calculate_notability_score(page) < min_notability
    THEN acc
    ELSE [acc EXCEPT !.results =
             Append(@, WikiPageResult(page, wiki_title_score(query, page)))]

\* Variant of FilterStep that also drops a candidate whose notability equals
\* min_notability_score (<= for <).
FilterStepDroppingEqual(query, page, min_notability, acc) ==
    IF wiki_is_disambiguation_page(page)
    THEN [acc EXCEPT !.disambiguation_page = IF @ = None THEN page ELSE @]
    ELSE IF wiki_is_list_page(page)
    THEN acc
    ELSE IF NotabilityRaises(page)
    THEN [acc EXCEPT !.raised = TRUE]
    ELSE IF calculate_notability_score(page) <= min_notability
    THEN acc
    ELSE [acc EXCEPT !.results =
             Append(@, WikiPageResult(page, wiki_title_score(query, page)))]

\* Variant of FilterStep in which every disambiguation page replaces the one
\* recorded before (no "if not disambiguation_page").
FilterStepLastDisambiguation(query, page, min_notability, acc) ==
    IF wiki_is_disambiguation_page(page)
    THEN [acc EXCEPT !.disambiguation_page = page]
    ELSE IF wiki_is_list_page(page)
    THEN acc
    ELSE IF NotabilityRaises(page)
    THEN [acc EXCEPT !.raised = TRUE]
    ELSE IF calculate_notability_score(page) < min_notability
    THEN acc
    ELSE [acc EXCEPT !.results =
             Append(@, WikiPageResult(page, wiki_title_score(query, page)))]

\* Variant of FilterStep that classifies a candidate as a disambiguation page
\* after the list test and the notability filter.
FilterStepDisambiguationLast(query, page, min_notability, acc) ==
    IF wiki_is_list_page(page)
    THEN acc
    ELSE IF NotabilityRaises(page)
    THEN [acc EXCEPT !.raised = TRUE]
    ELSE IF calculate_notability_score(page) < min_notability
    THEN acc
    ELSE IF wiki_is_disambiguation_page(page)
    THEN [acc EXCEPT !.disambiguation_page = IF @ = None THEN page ELSE @]
    ELSE [acc EXCEPT !.results =
             Append(@, WikiPageResult(page, wiki_title_score(query, page)))]

\* One iteration of "for page in pages": acc holds results,
\* disambiguation_page and whether calculate_notability_score raised.
FilterStep(query, page, min_notability, acc) ==
    IF wiki_is_disambiguation_page(page)
    THEN [acc EXCEPT !.disambiguation_page = IF @ = None THEN page ELSE @]
    ELSE IF wiki_is_list_page(page)
    THEN acc
    ELSE IF NotabilityRaises(page)
    THEN [acc EXCEPT !.raised = TRUE]
    ELSE IF calculate_notability_score(page) < min_notability
    THEN acc
    ELSE [acc EXCEPT !.results =
             Append(@, WikiPageResult(page, wiki_title_score(query, page)))]

\* The loop from candidate i on; an exception ends it.
RECURSIVE FilterLoop(_, _, _, _, _)
FilterLoop(query, candidates, min_notability, i, acc) ==
    IF i > Len(candidates) \/ acc.raised
    THEN acc
    ELSE FilterLoop(query, candidates, min_notability, i + 1,
                    FilterStep(query, candidates[i], min_notability, acc))

\* Variant of InsertByTitleScore that puts an entry before the entries of
\* equal title_score.
RECURSIVE InsertByTitleScoreBeforeEqual(_, _)
InsertByTitleScoreBeforeEqual(x, s) ==
    IF s = <<>> THEN <<x>>
    ELSE IF Head(s).title_score > x.title_score
    THEN <<Head(s)>> \o InsertByTitleScoreBeforeEqual(x, Tail(s))
    ELSE <<x>> \o s

\* list.insert keeping the order sorted() gives: descending by title_score,
\* equal keys in their original order.
RECURSIVE InsertByTitleScore(_, _)
InsertByTitleScore(x, s) ==
    IF s = <<>> THEN <<x>>
    ELSE IF Head(s).title_score >= x.title_score
    THEN <<Head(s)>> \o InsertByTitleScore(x, Tail(s))
    ELSE <<x>> \o s

\* sorted(results, key=lambda x: x.title_score, reverse=True)
RECURSIVE SortedByTitleScore(_)
SortedByTitleScore(results) ==
    IF results = <<>> THEN <<>>
    ELSE InsertByTitleScore(results[Len(results)],
                            SortedByTitleScore(SubSeq(results, 1, Len(results) - 1)))

\* Variant of CompareTopTwo with a non-strict cutoff test (>= for >).
CompareTopTwoNonStrict(results, threshold, cutoff) ==
    LET sorted_results == SortedByTitleScore(results) IN
    IF sorted_results[1] # results[1]
    THEN FALSE
    ELSE LET max_score    == total_score(sorted_results[1])
             second_score == total_score(sorted_results[2])
         IN  max_score > threshold /\ (max_score - second_score) >= cutoff

\* Variant of CompareTopTwo without the test that the first result heads the
\* sorted copy.
CompareTopTwoAnyOrder(results, threshold, cutoff) ==
    LET sorted_results == SortedByTitleScore(results)
        max_score      == total_score(sorted_results[1])
        second_score   == total_score(sorted_results[2])
    IN  max_score > threshold /\ (max_score - second_score) > cutoff

\* Variant of CompareTopTwo that takes the last entry of the results as the
\* second one.
CompareTopTwoWithLast(results, threshold, cutoff) ==
    LET sorted_results == SortedByTitleScore(results) IN
    IF sorted_results[1] # results[1]
    THEN FALSE
    ELSE LET max_score    == total_score(sorted_results[1])
             second_score == total_score(results[Len(results)])
         IN  max_score > threshold /\ (max_score - second_score) > cutoff

\* The last branch of the decision, for two or more results.
CompareTopTwo(results, threshold, cutoff) ==
    LET sorted_results == SortedByTitleScore(results) IN
    IF sorted_results[1] # results[1]
    THEN FALSE
    ELSE \* Compare top two matches
         LET max_score    == total_score(sorted_results[1])
             second_score == total_score(sorted_results[2])
         IN  max_score > threshold /\ (max_score - second_score) > cutoff

\* Variant of IsUnambiguous that does not look at disambiguation_page.
IsUnambiguousIgnoringDisambiguation(results, disambiguation_page, threshold, cutoff) ==
    IF Len(results) = 0 THEN FALSE
    ELSE IF Len(results) = 1 THEN TRUE
    ELSE CompareTopTwo(results, threshold, cutoff)

\* Variant of IsUnambiguous that holds a single result to the threshold.
IsUnambiguousSingleAboveThreshold(results, disambiguation_page, threshold, cutoff) ==
    IF disambiguation_page # None THEN FALSE
    ELSE IF Len(results) = 0 THEN FALSE
    ELSE IF Len(results) = 1 THEN total_score(results[1]) > threshold
    ELSE CompareTopTwo(results, threshold, cutoff)

\* Variant of IsUnambiguous that takes "no result" for "one result"
\* (<= 1 for == 1, without the branch for 0).
IsUnambiguousAtMostOne(results, disambiguation_page, threshold, cutoff) ==
    IF disambiguation_page # None THEN FALSE
    ELSE IF Len(results) <= 1 THEN TRUE
    ELSE CompareTopTwo(results, threshold, cutoff)

\* The decision "is there a single, notable page that matches the query?"
IsUnambiguous(results, disambiguation_page, threshold, cutoff) ==
    IF disambiguation_page # None THEN FALSE
    ELSE IF Len(results) = 0 THEN FALSE
    ELSE IF Len(results) = 1 THEN TRUE
    ELSE CompareTopTwo(results, threshold, cutoff)

\* Variant of assemble_search_results that returns the sorted copy as
\* page_results.
assemble_search_results_sorted(query, candidates, min_notability, min_title, threshold, cutoff) ==
    LET acc == FilterLoop(query, candidates, min_notability, 1, EmptyAcc)
    IN  IF acc.raised
        THEN Raised
        ELSE WikiSearchResults(
                 IsUnambiguous(acc.results, acc.disambiguation_page, threshold, cutoff),
                 acc.disambiguation_page,
                 SortedByTitleScore(acc.results))

\* A result's title_score reaches the minimum.
TitleScoreAtLeast(r, min_title) == r.title_score >= min_title

\* Variant of assemble_search_results that applies min_title_score as a
\* filter.
assemble_search_results_min_title(query, candidates, min_notability, min_title, threshold, cutoff) ==
    LET acc  == FilterLoop(query, candidates, min_notability, 1, EmptyAcc)
        kept == SelectSeq(acc.results, LAMBDA r : TitleScoreAtLeast(r, min_title))
    IN  IF acc.raised
        THEN Raised
        ELSE WikiSearchResults(
                 IsUnambiguous(kept, acc.disambiguation_page, threshold, cutoff),
                 acc.disambiguation_page,
                 kept)

assemble_search_results(query, candidates, min_notability, min_title, threshold, cutoff) ==
    LET acc == FilterLoop(query, candidates, min_notability, 1, EmptyAcc)
    IN  IF acc.raised
        THEN Raised
        ELSE WikiSearchResults(
                 IsUnambiguous(acc.results, acc.disambiguation_page, threshold, cutoff),
                 acc.disambiguation_page,
                 acc.results)

-----------------------------------------------------------------------------
(* The arguments of the calls *)

RECURSIVE SeqsUpTo(_, _)
SeqsUpTo(S, n) ==
    IF n = 0 THEN {<<>>}
    ELSE LET shorter == SeqsUpTo(S, n - 1)
         IN  shorter \cup { Append(s, x) : s \in shorter, x \in S }

PageLists == SeqsUpTo(AllPages, MaxPages)

\* The defaults of assemble_search_results: 4.0, 2.0, 6.0 and 2.
DefaultMinNotabilityScore   == 40000
DefaultMinTitleScore        == 4
DefaultUnambiguousThreshold == 12000000
DefaultUnambiguousCutoff    == 4000000

\* Each threshold takes its default and other values that make the
\* comparisons meet equality: notability 0.0 against 0.0 and a candidate's
\* notability against itself, the top total_score against itself, and the gap
\* between two candidates against itself.
MinNotabilityScores   ==
    {DefaultMinNotabilityScore, 0, calculate_notability_score(PagePythons)}
MinTitleScores        == {DefaultMinTitleScore, 199}
UnambiguousThresholds ==
    {DefaultUnambiguousThreshold,
     total_score(WikiPageResult(PagePython, wiki_title_score(TitlePython, PagePython)))}
UnambiguousCutoffs ==
    {DefaultUnambiguousCutoff,
     total_score(WikiPageResult(PagePython, wiki_title_score(TitlePython, PagePython)))
       - total_score(WikiPageResult(PagePythons, wiki_title_score(TitlePython, PagePythons)))}

-----------------------------------------------------------------------------
(* The state machine: one call of assemble_search_results *)

NoResult == WikiSearchResults(FALSE, None, <<>>)

\* The other calls are not made.
ScIdle == sc_pc = "idle" /\ sc_page = None /\ sc_out = None
TsIdle == ts_pc = "idle" /\ ts_query = <<>> /\ ts_title = <<>> /\ ts_out = 0
RpIdle == rp_pages = <<>> /\ rp_cached = {} /\ rp_results = <<>> /\ rp_net = <<>>
FIdle  == f_pc = "idle" /\ f_history = <<>> /\ f_value = <<>>
ApIdle == ap_pc = "idle" /\ ap_url = None /\ ap_out = None /\ ap_canon = None
DnsIdle ==
    /\ d_pc = "idle" /\ d_zones = 0 /\ d_records = 0
    /\ d_found = <<>> /\ d_errors = <<>> /\ d_result = <<>>
MapIdle == m_pc = "idle" /\ m_urls = <<>> /\ m_aws = None /\ m_calls = <<>> /\ m_out = None
SpIdle ==
    /\ sp_pc = "idle" /\ sp_given = None /\ sp_item = None /\ sp_labels = <<>>
    /\ sp_completions = 0 /\ sp_out = None
FrIdle ==
    /\ fr_pc = "idle" /\ fr_given = None /\ fr_item = None /\ fr_frames = <<>>
    /\ fr_kept = {} /\ fr_out = None
WikiIdle ==
    /\ pc = "idle"
    /\ concept = <<>>
    /\ pages = <<>>
    /\ min_notability_score = 0
    /\ min_title_score = 0
    /\ unambiguous_threshold = 0
    /\ unambiguous_cutoff = 0
    /\ result = NoResult

Init ==
    /\ ScIdle /\ TsIdle /\ RpIdle /\ FIdle /\ ApIdle
    /\ DnsIdle /\ MapIdle /\ SpIdle /\ FrIdle
    /\ pc = "start"
    /\ concept \in Concepts
    /\ pages \in PageLists
    /\ min_notability_score \in MinNotabilityScores
    /\ min_title_score \in MinTitleScores
    /\ unambiguous_threshold \in UnambiguousThresholds
    /\ unambiguous_cutoff \in UnambiguousCutoffs
    /\ result = NoResult

\* The call returns (or raises).
Assemble ==
    /\ pc = "start"
    /\ result' = assemble_search_results(concept, pages, min_notability_score,
                                         min_title_score, unambiguous_threshold,
                                         unambiguous_cutoff)
    /\ pc' = "done"
    /\ UNCHANGED <<concept, pages, min_notability_score, min_title_score,
                   unambiguous_threshold, unambiguous_cutoff>>
    /\ UNCHANGED <<scVars, tsVars, rpVars, fVars, apVars, dnsVars, mapVars, spVars, frVars>>

Next == Assemble

Spec == Init /\ [][Next]_vars

-----------------------------------------------------------------------------
(* What the properties below speak of *)

\* The call has returned a WikiSearchResults (it did not raise).
Returned == pc = "done" /\ ~result.raised

\* Some candidate of the input is classified as a disambiguation page.
HasDisambiguation ==
    \E i \in 1..Len(pages) : wiki_is_disambiguation_page(pages[i])

\* The candidate passes the three filters of the loop.
Survives(page) ==
    /\ ~wiki_is_disambiguation_page(page)
    /\ ~wiki_is_list_page(page)
    /\ calculate_notability_score(page) >= min_notability_score

\* The surviving candidates, in input order.
Survivors == SelectSeq(pages, Survives)

\* The pages of page_results, in order.
ResultPages == [k \in 1..Len(result.page_results) |-> result.page_results[k].page]

\* title_score * notability_score / 100 of an entry of page_results, in
\* two-millionths.
EntryTotal(r) == r.title_score * calculate_notability_score(r.page)

\* s is a subsequence of t: s is t with some elements left out.
RECURSIVE IsSubsequence(_, _)
IsSubsequence(s, t) ==
    IF s = <<>> THEN TRUE
    ELSE IF t = <<>> THEN FALSE
    ELSE IF Head(s) = Head(t) THEN IsSubsequence(Tail(s), Tail(t))
    ELSE IsSubsequence(s, Tail(t))

-----------------------------------------------------------------------------
(* C1 *)

\* No disambiguation page, at least two survivors, and the first survivor
\* heads the copy sorted by title_score.
C1_Case ==
    /\ Returned
    /\ ~HasDisambiguation
    /\ Len(Survivors) >= 2
    /\ Len(result.page_results) >= 2
    /\ SortedByTitleScore(result.page_results)[1] = result.page_results[1]

\* C1: when no disambiguation page was seen, at least two candidates survived
\* and the first survivor is the top entry of the title_score-descending sort,
\* has_unambigous_match is true if and only if top.total_score >
\* unambiguous_threshold and top.total_score - second.total_score >
\* unambiguous_cutoff, both strictly, where second is the second entry of the
\* sorted copy and total_score = title_score * notability_score / 100.
C1_UnambiguousIffAboveThresholdAndCutoff ==
    C1_Case =>
        LET sorted_results == SortedByTitleScore(result.page_results)
            top    == EntryTotal(sorted_results[1])
            second == EntryTotal(sorted_results[2])
        IN  result.has_unambigous_match
                <=> (top > unambiguous_threshold /\ top - second > unambiguous_cutoff)

\* The case of C1 with the top total above the threshold and the gap exactly
\* the cutoff: the match is not unambiguous.
C1_Witness ==
    /\ C1_Case
    /\ LET sorted_results == SortedByTitleScore(result.page_results)
       IN  /\ EntryTotal(sorted_results[1]) > unambiguous_threshold
           /\ EntryTotal(sorted_results[1]) - EntryTotal(sorted_results[2])
                  = unambiguous_cutoff
    /\ ~result.has_unambigous_match

-----------------------------------------------------------------------------
(* C2 *)

\* C2: if at least one candidate is classified as a disambiguation page, the
\* call returns has_unambigous_match = false, whatever else survives and
\* whatever the thresholds are.
C2_DisambiguationShortCircuit ==
    (Returned /\ HasDisambiguation) => ~result.has_unambigous_match

\* A disambiguation page beside exactly one surviving candidate.
C2_Witness ==
    /\ Returned
    /\ HasDisambiguation
    /\ Len(Survivors) = 1
    /\ Len(result.page_results) = 1
    /\ ~result.has_unambigous_match

-----------------------------------------------------------------------------
(* C3 *)

\* C3: with no disambiguation page among the candidates and exactly one
\* surviving candidate, has_unambigous_match is true, whatever that
\* candidate's scores and whatever the thresholds.
C3_SingleSurvivorIsUnambiguous ==
    (Returned /\ ~HasDisambiguation /\ Len(Survivors) = 1)
        => result.has_unambigous_match

\* A single survivor whose total_score is not above the threshold.
C3_Witness ==
    /\ Returned
    /\ ~HasDisambiguation
    /\ Len(Survivors) = 1
    /\ Len(result.page_results) = 1
    /\ EntryTotal(result.page_results[1]) <= unambiguous_threshold
    /\ result.has_unambigous_match

-----------------------------------------------------------------------------
(* C4 *)

\* At least two survivors, no disambiguation page, and some later survivor
\* has a higher title_score than the first one.
C4_Case ==
    /\ Returned
    /\ ~HasDisambiguation
    /\ Len(Survivors) >= 2
    /\ \E k \in 2..Len(result.page_results) :
           result.page_results[k].title_score > result.page_results[1].title_score

Reverse(s) == [i \in 1..Len(s) |-> s[Len(s) + 1 - i]]

\* C4: with at least two survivors and no disambiguation page, if the first
\* survivor (in input order) is not the highest-title_score entry,
\* has_unambigous_match is false whatever the total scores are.
C4_FirstMustBeTopTitleMatch ==
    C4_Case => ~result.has_unambigous_match

\* The case of C4 on a list whose reversal, the same candidates in another
\* order, is an unambiguous match.
C4_Witness ==
    /\ C4_Case
    /\ ~result.has_unambigous_match
    /\ LET other == assemble_search_results(concept, Reverse(pages),
                        min_notability_score, min_title_score,
                        unambiguous_threshold, unambiguous_cutoff)
       IN  ~other.raised /\ other.has_unambigous_match

-----------------------------------------------------------------------------
(* C5 *)

\* C5: page_results holds no candidate whose title contains "disambiguation"
\* and none whose title contains "list of" (case-insensitive), whatever its
\* notability; such candidates are never scored, so a call raises only when
\* scoring a candidate of neither kind raises.
C5_NoDisambiguationOrListPageInResults ==
    /\ Returned =>
           \A k \in 1..Len(result.page_results) :
               /\ ~IsDisambiguationTitle(result.page_results[k].page.title)
               /\ ~IsListTitle(result.page_results[k].page.title)
    /\ (pc = "done" /\ result.raised) =>
           \E i \in 1..Len(pages) :
               /\ ~IsDisambiguationTitle(pages[i].title)
               /\ ~IsListTitle(pages[i].title)
               /\ NotabilityRaises(pages[i])

\* A returned call whose candidates include a notable list page and a
\* disambiguation page whose properties cannot be fetched.
C5_Witness ==
    /\ Returned
    /\ Len(result.page_results) >= 1
    /\ \E i \in 1..Len(pages) :
           /\ wiki_is_list_page(pages[i])
           /\ calculate_notability_score(pages[i]) >= min_notability_score
    /\ \E i \in 1..Len(pages) :
           /\ wiki_is_disambiguation_page(pages[i])
           /\ NotabilityRaises(pages[i])

-----------------------------------------------------------------------------
(* C6 *)

\* C6: a candidate that is neither a disambiguation page nor a list page is
\* in page_results if and only if its notability score is >=
\* min_notability_score (equal is kept, lower is dropped); hence every entry
\* of page_results has notability_score >= min_notability_score.
C6_NotabilityFilter ==
    Returned =>
        /\ \A i \in 1..Len(pages) :
               (~wiki_is_disambiguation_page(pages[i]) /\ ~wiki_is_list_page(pages[i]))
                   => ((\E k \in 1..Len(result.page_results) :
                            result.page_results[k].page = pages[i])
                       <=> calculate_notability_score(pages[i]) >= min_notability_score)
        /\ \A k \in 1..Len(result.page_results) :
               calculate_notability_score(result.page_results[k].page)
                   >= min_notability_score

\* A candidate whose notability equals min_notability_score is kept, and one
\* below it is dropped, in the same call.
C6_Witness ==
    /\ Returned
    /\ \E k \in 1..Len(result.page_results) :
           calculate_notability_score(result.page_results[k].page)
               = min_notability_score
    /\ \E i \in 1..Len(pages) :
           /\ ~wiki_is_disambiguation_page(pages[i])
           /\ ~wiki_is_list_page(pages[i])
           /\ calculate_notability_score(pages[i]) < min_notability_score
           /\ \A k \in 1..Len(result.page_results) :
                  result.page_results[k].page # pages[i]

-----------------------------------------------------------------------------
(* C7 *)

\* C7: the pages of page_results are a subsequence of the input list, in the
\* input's relative order (they are the surviving candidates in input
\* order), never reordered by title_score or total_score.
C7_ResultsKeepInputOrder ==
    Returned =>
        /\ IsSubsequence(ResultPages, pages)
        /\ ResultPages = Survivors

\* Results left in input order although a later entry has the higher
\* title_score and the higher total_score, with a candidate filtered out.
C7_Witness ==
    /\ Returned
    /\ Len(result.page_results) >= 2
    /\ Len(result.page_results) < Len(pages)
    /\ result.page_results[1].title_score < result.page_results[2].title_score
    /\ EntryTotal(result.page_results[1]) < EntryTotal(result.page_results[2])

-----------------------------------------------------------------------------
(* C8 *)

\* The first candidate in input order classified as a disambiguation page.
FirstDisambiguation ==
    pages[CHOOSE i \in 1..Len(pages) :
              /\ wiki_is_disambiguation_page(pages[i])
              /\ \A j \in 1..(i - 1) : ~wiki_is_disambiguation_page(pages[j])]

\* C8: disambiguation_page is the first candidate in input order classified
\* as a disambiguation page; later ones never replace it; it is None exactly
\* when no candidate is classified as a disambiguation page.
C8_FirstDisambiguationPageIsKept ==
    Returned =>
        /\ HasDisambiguation => result.disambiguation_page = FirstDisambiguation
        /\ ~HasDisambiguation <=> result.disambiguation_page = None

\* Two different disambiguation pages in the input; the first one is
\* reported.
C8_Witness ==
    /\ Returned
    /\ \E i, j \in 1..Len(pages) :
           /\ i < j
           /\ wiki_is_disambiguation_page(pages[i])
           /\ wiki_is_disambiguation_page(pages[j])
           /\ pages[i] # pages[j]
           /\ result.disambiguation_page = pages[i]

-----------------------------------------------------------------------------
(* C9 *)

\* C9: an empty candidate list is not an error: the call returns
\* has_unambigous_match = false, disambiguation_page = None and
\* page_results = [] without raising; the decision is false as well whenever
\* every candidate is filtered out.
C9_EmptyIsNotAnError ==
    /\ (pc = "done" /\ pages = <<>>) =>
           /\ ~result.raised
           /\ ~result.has_unambigous_match
           /\ result.disambiguation_page = None
           /\ result.page_results = <<>>
    /\ (Returned /\ Len(Survivors) = 0) =>
           (~result.has_unambigous_match /\ result.page_results = <<>>)

\* The call on the empty list has returned.
C9_Witness ==
    /\ pc = "done"
    /\ pages = <<>>
    /\ result = WikiSearchResults(FALSE, None, <<>>)

-----------------------------------------------------------------------------
(* C10 *)

\* C10: min_title_score is a no-op: calls that differ only in
\* min_title_score have the same outcome (has_unambigous_match,
\* disambiguation_page and page_results), and no candidate is dropped because
\* of a low title_score.
C10_MinTitleScoreIsNoOp ==
    pc = "done" =>
        /\ \A other \in MinTitleScores :
               assemble_search_results(concept, pages, min_notability_score,
                                       other, unambiguous_threshold,
                                       unambiguous_cutoff) = result
        /\ ~result.raised =>
               \A i \in 1..Len(pages) :
                   Survives(pages[i]) =>
                       \E k \in 1..Len(result.page_results) :
                           result.page_results[k].page = pages[i]

\* An entry of page_results with a title_score below min_title_score.
C10_Witness ==
    /\ Returned
    /\ \E k \in 1..Len(result.page_results) :
           result.page_results[k].title_score < min_title_score

-----------------------------------------------------------------------------
(* One call of calculate_notability_score *)

\* What a call does: whether it raised, the score it returned, and whether it
\* read backlinks, langlinks and length.
NotabilityCall(page) ==
    IF NotabilityIsZero(page)
    THEN [raised |-> FALSE, score |-> 0, fetched |-> FALSE]
    ELSE IF NotabilityRaises(page)
    THEN [raised |-> TRUE, score |-> 0, fetched |-> TRUE]
    ELSE [raised |-> FALSE, score |-> calculate_notability_score(page), fetched |-> TRUE]

\* The counts and lengths of the pages scored.
Counts == {0, 5, 10, 200, 500, 5000, 50000, 90000}

\* The namespaces of the Namespace enumeration: MAIN, and OTHER for the
\* rest of them.
Namespaces == {"MAIN", "OTHER"}

\* A namespace number that is not in the enumeration.
UnknownNamespace == "UNKNOWN"

ScorerPages ==
    { WikipediaPage(1, TitlePython, e, ns, ok, b, l, len) :
          e \in BOOLEAN, ns \in Namespaces \cup {UnknownNamespace}, ok \in BOOLEAN,
          b \in Counts, l \in Counts, len \in Counts \cup {NoLength} }

InitScorer ==
    /\ WikiIdle /\ TsIdle /\ RpIdle /\ FIdle /\ ApIdle
    /\ DnsIdle /\ MapIdle /\ SpIdle /\ FrIdle
    /\ sc_pc = "start"
    /\ sc_page \in ScorerPages
    /\ sc_out = None

\* The call returns (or raises).
Score ==
    /\ sc_pc = "start"
    /\ sc_out' = NotabilityCall(sc_page)
    /\ sc_pc' = "done"
    /\ UNCHANGED sc_page
    /\ UNCHANGED <<wikiVars, tsVars, rpVars, fVars, apVars, dnsVars, mapVars, spVars, frVars>>

NextScorer == Score

SpecScorer == InitScorer /\ [][NextScorer]_vars

\* The page scored exists, is in the main namespace and its properties can be
\* fetched.
ScoredInFull == sc_pc = "done" /\ sc_page.exists /\ sc_page.namespace = "MAIN" /\ sc_page.props_ok

-----------------------------------------------------------------------------
(* C11 *)

\* C11: calculate_notability_score returns exactly 0.0 for every candidate
\* that does not exist or whose namespace is not MAIN, whatever its backlink
\* count, language-link count and length, and without reading those fields.
C11_ZeroForMissingOrNonMain ==
    (sc_pc = "done" /\ (~sc_page.exists \/ sc_page.namespace # "MAIN"))
        => (~sc_out.raised /\ sc_out.score = 0 /\ ~sc_out.fetched)

\* A page of the main namespace that does not exist, with large counts that
\* could not even be fetched, scored 0.0.
C11_Witness ==
    /\ sc_pc = "done"
    /\ ~sc_page.exists
    /\ sc_page.namespace = "MAIN"
    /\ sc_page.backlinks = 50000
    /\ ~sc_page.props_ok
    /\ sc_out = [raised |-> FALSE, score |-> 0, fetched |-> FALSE]

-----------------------------------------------------------------------------
(* C12 *)

\* C12: for existing MAIN-namespace candidates, increasing any one of
\* backlink count, interlanguage-link count or content length while holding
\* the other two fixed never decreases the notability score, and the score is
\* >= 0 for all non-negative inputs.
C12_NotabilityIsMonotone ==
    ScoredInFull =>
        /\ ~sc_out.raised
        /\ sc_out.score >= 0
        /\ \A c \in Counts :
               /\ c >= sc_page.backlinks =>
                      NotabilityCall([sc_page EXCEPT !.backlinks = c]).score >= sc_out.score
               /\ c >= sc_page.langlinks =>
                      NotabilityCall([sc_page EXCEPT !.langlinks = c]).score >= sc_out.score
               /\ c >= LengthOrZero(sc_page.length) =>
                      NotabilityCall([sc_page EXCEPT !.length = c]).score >= sc_out.score

\* A scored page with room to grow in its length, and a strictly higher
\* score for a longer page.
C12_Witness ==
    /\ ScoredInFull
    /\ sc_page.length = 500
    /\ sc_page.backlinks = 10
    /\ NotabilityCall([sc_page EXCEPT !.length = 5000]).score > sc_out.score

-----------------------------------------------------------------------------
(* C13 *)

\* C13: for an existing MAIN-namespace candidate the notability score equals
\* 0.5 * ln(1 + backlink_count) + 0.4 * ln(1 + interlanguage_link_count)
\* + 0.1 * ln(1 + content_length), a missing (None) content length counting
\* as 0.  (Score in ten-thousandths, logarithms in thousandths.)
C13_NotabilityFormula ==
    ScoredInFull =>
        /\ ~sc_out.raised
        /\ sc_out.score =
               5 * Log1p(sc_page.backlinks)
             + 4 * Log1p(sc_page.langlinks)
             + 1 * Log1p(IF sc_page.length = NoLength THEN 0 ELSE sc_page.length)

\* A page without a length, scored from its backlinks and langlinks alone.
C13_Witness ==
    /\ ScoredInFull
    /\ sc_page.length = NoLength
    /\ sc_page.backlinks = 50000
    /\ sc_page.langlinks = 200
    /\ sc_out.score = 5 * 10820 + 4 * 5303

-----------------------------------------------------------------------------
(* One call of wiki_title_score *)

TitleChars == {"a", "A", "b"}

TitleStrings == SeqsUpTo(TitleChars, MaxTitleLen)

\* The strings that differ from s in letter case only.
CaseVariants(s) == { t \in TitleStrings : Len(t) = Len(s) /\ Lower(t) = Lower(s) }

InitTitle ==
    /\ WikiIdle /\ ScIdle /\ RpIdle /\ FIdle /\ ApIdle
    /\ DnsIdle /\ MapIdle /\ SpIdle /\ FrIdle
    /\ ts_pc = "start"
    /\ ts_query \in TitleStrings
    /\ ts_title \in TitleStrings
    /\ ts_out = 0

\* The call returns.
ScoreTitle ==
    /\ ts_pc = "start"
    /\ ts_out' = TitleScoreOf(ts_query, ts_title)
    /\ ts_pc' = "done"
    /\ UNCHANGED <<ts_query, ts_title>>
    /\ UNCHANGED <<wikiVars, scVars, rpVars, fVars, apVars, dnsVars, mapVars, spVars, frVars>>

NextTitle == ScoreTitle

SpecTitle == InitTitle /\ [][NextTitle]_vars

-----------------------------------------------------------------------------
(* C14 *)

\* C14: wiki_title_score is the arithmetic mean of a whole-string ratio and a
\* partial ratio of the lower-cased query and the lower-cased title: it lies
\* in [0, 100], is unchanged by changing the letter case of either argument,
\* and is 100 whenever the non-empty query equals the title
\* case-insensitively.  (Score in halves: 100.0 is 200.)
C14_TitleScoreRangeAndCase ==
    ts_pc = "done" =>
        /\ ts_out = FuzzRatio(Lower(ts_query), Lower(ts_title))
                      + FuzzPartialRatio(Lower(ts_query), Lower(ts_title))
        /\ FuzzRatio(Lower(ts_query), Lower(ts_title)) \in 0..100
        /\ FuzzPartialRatio(Lower(ts_query), Lower(ts_title)) \in 0..100
        /\ ts_out \in 0..200
        /\ \A q \in CaseVariants(ts_query) : TitleScoreOf(q, ts_title) = ts_out
        /\ \A t \in CaseVariants(ts_title) : TitleScoreOf(ts_query, t) = ts_out
        /\ (Len(ts_query) > 0 /\ Lower(ts_query) = Lower(ts_title)) => ts_out = 200

\* A query and a title that differ in case only, scored 100.
C14_Witness ==
    /\ ts_pc = "done"
    /\ ts_query = <<"A", "b">>
    /\ ts_title = <<"a", "b">>
    /\ ts_out = 200

-----------------------------------------------------------------------------
(* C15 *)

\* The candidate's namespace is none of the known ones.
HasUnknownNamespace(page) == page.namespace \notin Namespaces

\* The candidate is in page_results.
InResults(page) ==
    \E k \in 1..Len(result.page_results) : result.page_results[k].page = page

-----------------------------------------------------------------------------
(* Repeated calls of assemble_search_results on the same candidates *)

\* A WikipediaPage fetches backlinks, langlinks and length on first use and
\* keeps them in the object.  rp_cached holds the ids of the candidate
\* objects that hold their properties; rp_net[k] says whether the network
\* could be reached during call k; rp_results[k] is the outcome of call k.

RepeatConcept == TitlePython

RepeatPages == {PagePython, PagePythons, PageDisambig, PageOtherSpace, PageObscure}

\* calculate_notability_score reads the properties of the candidate.
Scorable(page) ==
    /\ ~wiki_is_disambiguation_page(page)
    /\ ~wiki_is_list_page(page)
    /\ ~NotabilityIsZero(page)

\* The candidate as a call finds it: its properties can be read when the
\* object holds them or the network can be reached.
SeenBy(page, net, cached) == [page EXCEPT !.props_ok = net \/ page.id \in cached]

\* The candidate object of the list that the call's copy stands for.
TheObject(page, candidates) ==
    IF page = None THEN None
    ELSE candidates[CHOOSE i \in 1..Len(candidates) : candidates[i].id = page.id]

\* The call's outcome, in terms of the candidate objects.
OnObjects(res, candidates) ==
    [res EXCEPT
        !.disambiguation_page = TheObject(@, candidates),
        !.page_results =
            SubSeq([k \in 1..Len(@) |->
                       WikiPageResult(TheObject(@[k].page, candidates), @[k].title_score)],
                   1, Len(@))]

\* One call with the default thresholds.
RepeatCall(candidates, net, cached) ==
    LET seen == SubSeq([i \in 1..Len(candidates) |-> SeenBy(candidates[i], net, cached)],
                       1, Len(candidates))
    IN  OnObjects(assemble_search_results(RepeatConcept, seen,
                      DefaultMinNotabilityScore, DefaultMinTitleScore,
                      DefaultUnambiguousThreshold, DefaultUnambiguousCutoff),
                  candidates)

\* Variant of CacheAfter in which the objects keep nothing.
CacheAfterKeepingNothing(candidates, net, cached) == cached

\* The objects that hold their properties after a call: with the network
\* reachable, the loop reads the properties of every scorable candidate.
CacheAfter(candidates, net, cached) ==
    cached \cup { candidates[i].id : i \in { j \in 1..Len(candidates) :
                                                 net /\ Scorable(candidates[j]) } }

InitRepeat ==
    /\ WikiIdle /\ ScIdle /\ TsIdle /\ FIdle /\ ApIdle
    /\ DnsIdle /\ MapIdle /\ SpIdle /\ FrIdle
    /\ rp_pages \in SeqsUpTo(RepeatPages, MaxPages)
    /\ rp_cached = {}
    /\ rp_results = <<>>
    /\ rp_net = <<>>

\* One more call with the same arguments.
CallAgain ==
    /\ Len(rp_results) < MaxCalls
    /\ \E net \in BOOLEAN :
           /\ rp_results' = Append(rp_results, RepeatCall(rp_pages, net, rp_cached))
           /\ rp_cached' = CacheAfter(rp_pages, net, rp_cached)
           /\ rp_net' = Append(rp_net, net)
    /\ UNCHANGED rp_pages
    /\ UNCHANGED <<wikiVars, scVars, tsVars, fVars, apVars, dnsVars, mapVars, spVars, frVars>>

NextRepeat == CallAgain

SpecRepeat == InitRepeat /\ [][NextRepeat]_vars

-----------------------------------------------------------------------------
(* C16 *)

\* The ids of the scorable candidates of the list.
ScorableIds == { rp_pages[i].id : i \in { j \in 1..Len(rp_pages) : Scorable(rp_pages[j]) } }

-----------------------------------------------------------------------------
(* wiki_article_search_api and its retries *)

\* stop_after_attempt(5)
MaxAttempts == 5

FetchConcept == TitlePython

\* The titles of the search hits: two pages, a redirect to the first of them,
\* and a title without a page.
HitPython  == TitlePython
HitPythons == TitlePythons
HitPy      == <<"P", "y">>
HitMissing == <<"N", "o", "p", "e">>

HitTitles == {HitPython, HitPythons, HitPy, HitMissing}

\* _wiki.page(title).exists()
PageExists(title) == title # HitMissing

\* page.title once the page is fetched: the title the redirect leads to.
FinalTitle(title) == IF title = HitPy THEN TitlePython ELSE title

\* _wiki.page(final_title): the n-th WikipediaPage object the call appends.
FetchedPage(final_title, n) ==
    [(IF final_title = TitlePython THEN PagePython ELSE PagePythons) EXCEPT !.id = 100 + n]

\* What an attempt gets from upstream.  "error": the request fails;
\* "malformed": the body is not a JSON object of search results;
\* "no_query": a JSON object without query.search; "empty": no hits;
\* "hits": the hits, with pairwise different titles.
Response(kind, hits) == [kind |-> kind, hits |-> hits]

HitLists ==
    { h \in SeqsUpTo(HitTitles, MaxHits) :
          Len(h) > 0 /\ \A i, j \in 1..Len(h) : i # j => h[i] # h[j] }

Responses ==
    { Response(k, <<>>) : k \in {"error", "malformed", "no_query", "empty"} }
        \cup { Response("hits", h) : h \in HitLists }

\* Variant of AttemptRaises that also raises when there are no hits.
AttemptRaisesWithoutHits(resp) == resp.kind # "hits"

\* The attempt raises: the except clauses re-raise.
AttemptRaises(resp) == resp.kind \in {"error", "malformed"}

\* "for title in titles", from hit i on.
RECURSIVE ResolveHits(_, _, _)
ResolveHits(hits, i, results) ==
    IF i > Len(hits) THEN results
    ELSE IF ~PageExists(hits[i]) \/ ~PageExists(FinalTitle(hits[i]))
    THEN ResolveHits(hits, i + 1, results)
    ELSE ResolveHits(hits, i + 1,
             Append(results, FetchedPage(FinalTitle(hits[i]), Len(results) + 1)))

\* The list an attempt returns when it does not raise.
AttemptValue(resp) ==
    IF resp.kind # "hits" THEN <<>> ELSE ResolveHits(resp.hits, 1, <<>>)

\* Variant of AfterAttempt that gives up one attempt later.
AfterAttemptOneMore(attempts, raised) ==
    IF ~raised THEN "returned"
    ELSE IF attempts > MaxAttempts THEN "failed"
    ELSE "running"

\* @retry: a returning attempt ends the call, a raising one is repeated
\* until attempt MaxAttempts has raised.
AfterAttempt(attempts, raised) ==
    IF ~raised THEN "returned"
    ELSE IF attempts >= MaxAttempts THEN "failed"
    ELSE "running"

\* wiki_article_search, given what wiki_article_search_api returned.
wiki_article_search(query, fetched) ==
    assemble_search_results(query, fetched,
        DefaultMinNotabilityScore, DefaultMinTitleScore,
        DefaultUnambiguousThreshold, DefaultUnambiguousCutoff)

InitFetch ==
    /\ WikiIdle /\ ScIdle /\ TsIdle /\ RpIdle /\ ApIdle
    /\ DnsIdle /\ MapIdle /\ SpIdle /\ FrIdle
    /\ f_pc = "running"
    /\ f_history = <<>>
    /\ f_value = <<>>

\* One attempt of wiki_article_search_api.
Attempt ==
    /\ f_pc = "running"
    /\ \E resp \in Responses :
           LET raised == AttemptRaises(resp)
           IN  /\ f_history' = Append(f_history, [response |-> resp, raised |-> raised])
               /\ f_pc' = AfterAttempt(Len(f_history) + 1, raised)
               /\ f_value' = IF raised THEN f_value ELSE AttemptValue(resp)
    /\ UNCHANGED <<wikiVars, scVars, tsVars, rpVars, apVars, dnsVars, mapVars, spVars, frVars>>

NextFetch == Attempt

SpecFetch == InitFetch /\ [][NextFetch]_vars

\* The titles of the pages of a list are pairwise different.
DistinctTitles(ps) == \A i, j \in 1..Len(ps) : i # j => ps[i].title # ps[j].title

-----------------------------------------------------------------------------
(* C17 *)

\* C17: page_results never contains two entries with the same title:
\* wiki_article_search_api returns a list with pairwise distinct titles, so
\* wiki_article_search never yields duplicate titles in page_results.
C17_FetchedTitlesAreDistinct ==
    f_pc = "returned" =>
        /\ DistinctTitles(f_value)
        /\ LET res == wiki_article_search(FetchConcept, f_value)
           IN  \A i, j \in 1..Len(res.page_results) :
                   i # j => res.page_results[i].page.title # res.page_results[j].page.title

-----------------------------------------------------------------------------
(* C18 *)

\* C18: wiki_article_search_api makes at most 5 attempts per call; an
\* attempt is repeated only after the previous one raised; the first attempt
\* that returns ends the call with that attempt's value; and if the fifth
\* attempt raises, the call fails instead of retrying.
C18_RetriesAreCapped ==
    /\ Len(f_history) <= 5
    /\ \A k \in 1..(Len(f_history) - 1) : f_history[k].raised
    /\ f_pc = "running" =>
           (Len(f_history) < 5 /\ \A k \in 1..Len(f_history) : f_history[k].raised)
    /\ f_pc = "returned" =>
           /\ Len(f_history) >= 1
           /\ ~f_history[Len(f_history)].raised
           /\ f_value = AttemptValue(f_history[Len(f_history)].response)
    /\ f_pc = "failed" <=>
           (Len(f_history) = 5 /\ \A k \in 1..5 : f_history[k].raised)

\* Four attempts raised and the fifth returned pages.
C18_Witness ==
    /\ f_pc = "returned"
    /\ Len(f_history) = 5
    /\ Len(f_value) = 2

-----------------------------------------------------------------------------
(* C19 *)

\* The upstream response has no search hits or is malformed.
EmptyOrMalformed(resp) == resp.kind \in {"empty", "no_query", "malformed"}

\* C19, as claimed: when the upstream search response is empty or malformed,
\* the fetcher fails after exhausting its retries rather than returning a
\* candidate list: no attempt on such a response returns.
C19_EmptyOrMalformedFails ==
    \A k \in 1..Len(f_history) :
        EmptyOrMalformed(f_history[k].response) => f_history[k].raised

\* C19, amended: an attempt raises, and is retried, exactly when the request
\* fails or the response cannot be read as search results.  A response
\* without search hits, and one whose hits all lack a page, make the call
\* return the empty list at once, without error and without retry; the call
\* fails only after five attempts have raised.
C19_NoHitsReturnsEmptyList ==
    /\ \A k \in 1..Len(f_history) :
           f_history[k].raised <=> f_history[k].response.kind \in {"error", "malformed"}
    /\ f_pc = "returned" =>
           LET last == f_history[Len(f_history)].response
           IN  /\ last.kind \in {"empty", "no_query"} => f_value = <<>>
               /\ (last.kind = "hits" /\ \A i \in 1..Len(last.hits) : ~PageExists(last.hits[i]))
                      => f_value = <<>>
    /\ f_pc = "failed" =>
           \A k \in 1..Len(f_history) : f_history[k].response.kind \in {"error", "malformed"}

\* The first attempt got a response without hits and the call returned the
\* empty list.
C19_Witness ==
    /\ f_pc = "returned"
    /\ Len(f_history) = 1
    /\ f_history[1].response.kind = "empty"
    /\ f_value = <<>>

-----------------------------------------------------------------------------
(* ApplePodcasts.get_media_id *)

\* A URL after urlparse: the host name, the parts of path.split("/") and the
\* parameters of the query string in order.  A returned string s is
\* [str |-> s], next to None.
Str(s) == [str |-> s]

AppleHosts == {"podcasts.apple.com", "itunes.apple.com"}

Hosts == AppleHosts \cup {"example.com"}

SegCountry == <<"u", "s">>
SegPodcast == <<"p", "o", "d", "c", "a", "s", "t">>
SegTalk    == <<"t", "a", "l", "k">>
SegIdeas   == <<"i", "d", "e", "a", "s">>
SegId12    == <<"i", "d", "1", "2">>
SegId7     == <<"i", "d", "7">>

\* The paths of the URL format: /[country/]podcast/[title/][id], split at "/".
Paths ==
    { <<<<>>>> \o country \o <<SegPodcast>> \o title \o podcast_id :
          country \in {<<>>, <<SegCountry>>},
          title \in {<<>>, <<SegTalk>>, <<SegIdeas>>},
          podcast_id \in {<<>>, <<SegId12>>, <<SegId7>>} }

Param(key, value) == [key |-> key, value |-> value]

Params == { Param("i", <<"7">>), Param("i", <<"8">>), Param("i", <<>>), Param("l", <<"e", "n">>) }

Urls ==
    { [host |-> h, path |-> p, query |-> q] :
          h \in Hosts, p \in Paths, q \in SeqsUpTo(Params, MaxParams) }

\* part.startswith("id")
StartsWithId(part) == Len(part) >= 2 /\ part[1] = "i" /\ part[2] = "d"

\* parse_qs(query).get(key, [None])[0]: parameters with a blank value are
\* left out.
QueryGetFirst(query, key) ==
    LET values == SelectSeq(query, LAMBDA kv : kv.key = key /\ Len(kv.value) > 0)
    IN  IF Len(values) = 0 THEN None ELSE Str(values[1].value)

\* "for part in path_parts", from part i on.
RECURSIVE MediaIdFromParts(_, _, _)
MediaIdFromParts(path_parts, i, query) ==
    IF i > Len(path_parts) THEN None
    ELSE IF StartsWithId(path_parts[i]) /\ QueryGetFirst(query, "i") # None
    THEN Str(path_parts[i] \o <<"?", "i", "=">> \o QueryGetFirst(query, "i").str)
    ELSE MediaIdFromParts(path_parts, i + 1, query)

get_media_id(url) ==
    IF url.host \in AppleHosts
    THEN MediaIdFromParts(url.path, 1, url.query)
    ELSE None

\* Url(f"https://podcasts.apple.com/podcast/{podcast_id}?i={episode_id}") and
\* Url(f"https://podcasts.apple.com/podcast/{podcast_id}"), as urlparse
\* reads them.
CanonicalUrl(podcast_id, episode_id) ==
    [host  |-> "podcasts.apple.com",
     path  |-> <<<<>>, SegPodcast, podcast_id>>,
     query |-> IF episode_id = None THEN <<>> ELSE <<Param("i", episode_id.str)>>]

\* The pair canonicalize_and_type returns.
Canonical(url, type) == [url |-> url, type |-> type]

\* "for part in path_parts" of canonicalize_and_type, from part i on: the
\* first part that starts with "id" decides.
RECURSIVE CanonicalFromParts(_, _, _)
CanonicalFromParts(path_parts, i, query) ==
    IF i > Len(path_parts) THEN Canonical(None, None)
    ELSE IF StartsWithId(path_parts[i])
    THEN IF QueryGetFirst(query, "i") # None
         THEN Canonical(CanonicalUrl(path_parts[i], QueryGetFirst(query, "i")), "episode")
         ELSE Canonical(CanonicalUrl(path_parts[i], None), "podcast")
    ELSE CanonicalFromParts(path_parts, i + 1, query)

canonicalize_and_type(url) ==
    IF url.host \in AppleHosts
    THEN CanonicalFromParts(url.path, 1, url.query)
    ELSE Canonical(None, None)

InitApple ==
    /\ WikiIdle /\ ScIdle /\ TsIdle /\ RpIdle /\ FIdle
    /\ DnsIdle /\ MapIdle /\ SpIdle /\ FrIdle
    /\ ap_pc = "start"
    /\ ap_url \in Urls
    /\ ap_out = None
    /\ ap_canon = None

\* A call of get_media_id returns.
GetMediaId ==
    /\ ap_pc = "start"
    /\ ap_out' = get_media_id(ap_url)
    /\ ap_pc' = "done"
    /\ UNCHANGED <<ap_url, ap_canon>>
    /\ UNCHANGED <<wikiVars, scVars, tsVars, rpVars, fVars, dnsVars, mapVars, spVars, frVars>>

\* A call of canonicalize_and_type returns.
Canonicalize ==
    /\ ap_pc = "start"
    /\ ap_canon' = canonicalize_and_type(ap_url)
    /\ ap_pc' = "canonical"
    /\ UNCHANGED <<ap_url, ap_out>>
    /\ UNCHANGED <<wikiVars, scVars, tsVars, rpVars, fVars, dnsVars, mapVars, spVars, frVars>>

NextApple == GetMediaId \/ Canonicalize

SpecApple == InitApple /\ [][NextApple]_vars

-----------------------------------------------------------------------------
(* C20 *)

\* The part is a podcast id: "id" and digits.
IsPodcastId(part) ==
    /\ Len(part) > 2
    /\ StartsWithId(part)
    /\ \A k \in 3..Len(part) : part[k] \in {"0", "1", "2", "3", "4", "5", "6", "7", "8", "9"}

\* C20: get_media_id returns None for every URL whose host is not
\* podcasts.apple.com or itunes.apple.com and for every Apple Podcasts URL
\* without an episode query parameter i; for an Apple Podcasts URL with
\* podcast id segment P and episode parameter E it returns 'P?i=E'.
C20_MediaIdIsPodcastAndEpisode ==
    ap_pc = "done" =>
        /\ ap_url.host \notin AppleHosts => ap_out = None
        /\ QueryGetFirst(ap_url.query, "i") = None => ap_out = None
        /\ \A k \in 1..Len(ap_url.path) :
               (/\ ap_url.host \in AppleHosts
                /\ IsPodcastId(ap_url.path[k])
                /\ QueryGetFirst(ap_url.query, "i") # None)
                   => ap_out = Str(ap_url.path[k] \o <<"?", "i", "=">>
                                       \o QueryGetFirst(ap_url.query, "i").str)

-----------------------------------------------------------------------------
(* C21 *)

\* The first non-blank value of the episode parameter i, or None.
EpisodeId == QueryGetFirst(ap_url.query, "i")

\* C21: canonicalization depends only on the podcast id and the episode id:
\* every Apple Podcasts URL with podcast id P and episode id E, whatever its
\* country and title segments, canonicalizes to
\* https://podcasts.apple.com/podcast/P?i=E with type episode, and to
\* https://podcasts.apple.com/podcast/P with type podcast when there is no
\* episode id; canonicalizing a canonical URL returns it unchanged.
C21_CanonicalFromPodcastAndEpisode ==
    (ap_pc = "canonical" /\ ap_url.host \in AppleHosts) =>
        /\ \A k \in 1..Len(ap_url.path) :
               IsPodcastId(ap_url.path[k]) =>
                   ap_canon =
                       Canonical(CanonicalUrl(ap_url.path[k], EpisodeId),
                                 IF EpisodeId = None THEN "podcast" ELSE "episode")
        /\ ap_canon.url # None => canonicalize_and_type(ap_canon.url) = ap_canon

-----------------------------------------------------------------------------
(* find_dns_for_cf *)

Digits == <<"0", "1", "2", "3", "4", "5", "6", "7", "8", "9">>

\* The characters of the names, in code point order.
CodeOrder == <<".">> \o Digits \o UpperChars \o LowerChars

Ord(c) == CHOOSE i \in 1..Len(CodeOrder) : CodeOrder[i] = c

\* a < b for Python strings.
RECURSIVE StrLess(_, _)
StrLess(a, b) ==
    IF Len(b) = 0 THEN FALSE
    ELSE IF Len(a) = 0 THEN TRUE
    ELSE IF Head(a) = Head(b) THEN StrLess(Tail(a), Tail(b))
    ELSE Ord(Head(a)) < Ord(Head(b))

\* sorted(list(S)) for a set of strings.
RECURSIVE SortedSet(_)
SortedSet(S) ==
    IF S = {} THEN <<>>
    ELSE LET least == CHOOSE x \in S : \A y \in S : x = y \/ StrLess(x, y)
         IN  <<least>> \o SortedSet(S \ {least})

\* list.insert keeping a list of strings sorted.
RECURSIVE InsertSorted(_, _)
InsertSorted(x, sorted) ==
    IF Len(sorted) = 0 THEN <<x>>
    ELSE IF StrLess(x, Head(sorted)) THEN <<x>> \o sorted
    ELSE <<Head(sorted)>> \o InsertSorted(x, Tail(sorted))

\* Variant of SortedUnique that sorts the list as it is.
RECURSIVE SortedKeepingDuplicates(_)
SortedKeepingDuplicates(names) ==
    IF Len(names) = 0 THEN <<>>
    ELSE InsertSorted(Head(names), SortedKeepingDuplicates(Tail(names)))

\* sorted(list(set(found_dns_names)))
SortedUnique(names) == SortedSet({ names[i] : i \in 1..Len(names) })

\* s.rstrip(".")
RECURSIVE RStripDots(_)
RStripDots(s) ==
    IF Len(s) > 0 /\ s[Len(s)] = "." THEN RStripDots(SubSeq(s, 1, Len(s) - 1)) ELSE s

\* The argument cf_domain_name.
CfDomainName == <<"D", "1", ".", "n", "e", "t", ".">>

\* The HostedZoneId of alias targets that are CloudFront distributions.
CloudFrontZoneId == "Z2FDTNDATAQYW2"

\* A resource record set: Name, Type, AliasTarget (DNSName "" and
\* HostedZoneId "" when absent) and the Value of ResourceRecords[0] ("" when
\* there is none).
ResourceRecordSet(name, type, alias_dns, alias_zone, value) ==
    [Name |-> name, Type |-> type, AliasDNSName |-> alias_dns,
     AliasHostedZoneId |-> alias_zone, Value |-> value]

RecAliasB ==
    ResourceRecordSet(<<"b", ".", "i", "o", ".">>, "A",
                      <<"d", "1", ".", "n", "e", "t", ".">>, CloudFrontZoneId, <<>>)
RecCnameB ==
    ResourceRecordSet(<<"b", ".", "i", "o">>, "CNAME", <<>>, "",
                      <<"D", "1", ".", "N", "E", "T">>)
RecCnameUpperB ==
    ResourceRecordSet(<<"B", ".", "i", "o", ".">>, "CNAME", <<>>, "",
                      <<"d", "1", ".", "n", "e", "t">>)
RecAliasOtherZone ==
    ResourceRecordSet(<<"c", ".", "i", "o", ".">>, "AAAA",
                      <<"d", "1", ".", "n", "e", "t", ".">>, "Z35SXDOTRQ7X7K", <<>>)
RecCnameElsewhere ==
    ResourceRecordSet(<<"a", ".", "i", "o", ".">>, "CNAME", <<>>, "",
                      <<"d", "2", ".", "n", "e", "t">>)

Records == {RecAliasB, RecCnameB, RecCnameUpperB, RecAliasOtherZone, RecCnameElsewhere}

\* The record is an A/AAAA alias or a CNAME that points to the CloudFront
\* domain.
RecordMatches(record, cf_domain_name) ==
    LET target_cf_domain == RStripDots(cf_domain_name)
    IN  IF record.Type \in {"A", "AAAA"}
        THEN /\ Lower(RStripDots(record.AliasDNSName)) = Lower(target_cf_domain)
             /\ record.AliasHostedZoneId = CloudFrontZoneId
        ELSE IF record.Type = "CNAME"
        THEN /\ Len(record.Value) > 0
             /\ Lower(RStripDots(record.Value)) = Lower(target_cf_domain)
        ELSE FALSE

\* found_dns_names after the record is looked at.
FoundAfter(found, record) ==
    IF RecordMatches(record, CfDomainName)
    THEN Append(found, RStripDots(record.Name))
    ELSE found

InitDns ==
    /\ WikiIdle /\ ScIdle /\ TsIdle /\ RpIdle /\ FIdle /\ ApIdle
    /\ MapIdle /\ SpIdle /\ FrIdle
    /\ d_pc = "zones"
    /\ d_zones = 0
    /\ d_records = 0
    /\ d_found = <<>>
    /\ d_errors = <<>>
    /\ d_result = <<>>

\* The next hosted zone has an Id: its records are listed.
ZoneBegins ==
    /\ d_pc = "zones"
    /\ d_zones < MaxZones
    /\ d_zones' = d_zones + 1
    /\ d_records' = 0
    /\ d_pc' = "records"
    /\ UNCHANGED <<d_found, d_errors, d_result>>
    /\ UNCHANGED <<wikiVars, scVars, tsVars, rpVars, fVars, apVars, mapVars, spVars, frVars>>

\* The next hosted zone has no Id: it is skipped.
ZoneWithoutId ==
    /\ d_pc = "zones"
    /\ d_zones < MaxZones
    /\ d_zones' = d_zones + 1
    /\ UNCHANGED <<d_pc, d_records, d_found, d_errors, d_result>>
    /\ UNCHANGED <<wikiVars, scVars, tsVars, rpVars, fVars, apVars, mapVars, spVars, frVars>>

\* The next record of the zone.
RecordListed ==
    /\ d_pc = "records"
    /\ d_records < MaxRecords
    /\ \E record \in Records : d_found' = FoundAfter(d_found, record)
    /\ d_records' = d_records + 1
    /\ UNCHANGED <<d_pc, d_zones, d_errors, d_result>>
    /\ UNCHANGED <<wikiVars, scVars, tsVars, rpVars, fVars, apVars, mapVars, spVars, frVars>>

\* The zone has no more records.
RecordsEnd ==
    /\ d_pc = "records"
    /\ d_pc' = "zones"
    /\ UNCHANGED <<d_zones, d_records, d_found, d_errors, d_result>>
    /\ UNCHANGED <<wikiVars, scVars, tsVars, rpVars, fVars, apVars, mapVars, spVars, frVars>>

\* Listing the records of the zone raises ClientError: the inner except
\* clause goes on with the next zone.
RecordsError ==
    /\ d_pc = "records"
    /\ d_errors' = Append(d_errors, "records")
    /\ d_pc' = "zones"
    /\ UNCHANGED <<d_zones, d_records, d_found, d_result>>
    /\ UNCHANGED <<wikiVars, scVars, tsVars, rpVars, fVars, apVars, mapVars, spVars, frVars>>

\* There are no more hosted zones: the call returns.
ZonesEnd ==
    /\ d_pc = "zones"
    /\ d_result' = SortedUnique(d_found)
    /\ d_pc' = "returned"
    /\ UNCHANGED <<d_zones, d_records, d_found, d_errors>>
    /\ UNCHANGED <<wikiVars, scVars, tsVars, rpVars, fVars, apVars, mapVars, spVars, frVars>>

\* Listing the hosted zones raises ClientError: the outer except clause
\* ends the scan and the call returns.
ZonesError ==
    /\ d_pc = "zones"
    /\ d_errors' = Append(d_errors, "zones")
    /\ d_result' = SortedUnique(d_found)
    /\ d_pc' = "returned"
    /\ UNCHANGED <<d_zones, d_records, d_found>>
    /\ UNCHANGED <<wikiVars, scVars, tsVars, rpVars, fVars, apVars, mapVars, spVars, frVars>>

NextDns ==
    \/ ZoneBegins
    \/ ZoneWithoutId
    \/ RecordListed
    \/ RecordsEnd
    \/ RecordsError
    \/ ZonesEnd
    \/ ZonesError

SpecDns == InitDns /\ [][NextDns]_vars

-----------------------------------------------------------------------------
(* C27 *)

\* The list is strictly ascending: sorted and without duplicates.
StrictlySorted(names) == \A i \in 1..(Len(names) - 1) : StrLess(names[i], names[i + 1])

\* The elements of a list.
Elements(names) == { names[i] : i \in 1..Len(names) }

-----------------------------------------------------------------------------
(* map_s3_urls_to_public_urls *)

\* An S3 URL as parse_s3_url reads it; a URL it rejects has valid = FALSE.
S3Url(bucket, key) == [valid |-> TRUE, bucket |-> bucket, key |-> key]

NotS3Url == [valid |-> FALSE, bucket |-> "", key |-> ""]

Buckets == {"media", "docs", "logs"}

Keys == {"a.mp3", "b/c.txt"}

S3Urls == { S3Url(b, k) : b \in Buckets, k \in Keys } \cup {NotS3Url}

\* The domain names of the CloudFront distributions.
Distributions == {"d1.net", "d2.net"}

\* find_cf_for_s3_bucket: the distributions with the bucket as an origin.
find_cf_for_s3_bucket(bucket_name) ==
    CASE bucket_name = "media" -> <<"d1.net", "d2.net">>
      [] bucket_name = "docs"  -> <<"d2.net">>
      [] OTHER                 -> <<>>

DnsNames == { <<"b", ".", "i", "o">>, <<"B", ".", "i", "o">>, <<"a", ".", "i", "o">> }

\* What find_dns_for_cf can return: sorted lists without duplicates.
DnsAnswers == { SortedSet(S) : S \in SUBSET DnsNames }

\* Route 53, as find_dns_for_cf sees it: its answer for each distribution.
AwsStates == [Distributions -> DnsAnswers]

\* find_dns_names_for_s3_bucket
find_dns_names_for_s3_bucket(bucket_name, aws) ==
    LET cf_distributions == find_cf_for_s3_bucket(bucket_name)
        all_dns_names ==
            UNION { Elements(aws[cf_distributions[i]]) : i \in 1..Len(cf_distributions) }
    IN  IF Len(cf_distributions) = 0 THEN <<>> ELSE SortedSet(all_dns_names)

\* Variant of PrimaryDomain that takes the last name.
LastDomain(dns_names) == dns_names[Len(dns_names)]

\* public_domain = dns_names[0]
PrimaryDomain(dns_names) == dns_names[1]

\* Url(f"https://{public_domain}/{key}")
PublicUrl(public_domain, key) == [domain |-> public_domain, key |-> key]

\* bucket_to_dns_map.get(bucket)
BucketDomain(bucket, aws) ==
    LET dns_names == find_dns_names_for_s3_bucket(bucket, aws)
    IN  IF Len(dns_names) > 0 THEN Str(PrimaryDomain(dns_names)) ELSE None

\* The dictionary of the second pass: every URL of the list is a key.
PublicMap(s3_urls, aws) ==
    [u \in Elements(s3_urls) |->
        LET public_domain == BucketDomain(u.bucket, aws)
        IN  IF public_domain # None /\ Len(public_domain.str) > 0
            THEN PublicUrl(public_domain.str, u.key)
            ELSE None]

\* What a call produces: the dictionary, or the ValueError of parse_s3_url.
map_s3_urls_to_public_urls(s3_urls, aws) ==
    IF \E i \in 1..Len(s3_urls) : ~s3_urls[i].valid
    THEN [raised |-> TRUE, dict |-> <<>>]
    ELSE [raised |-> FALSE, dict |-> PublicMap(s3_urls, aws)]

\* The orders in which "for bucket in buckets" can go through a set.
RECURSIVE Orders(_)
Orders(S) ==
    IF S = {} THEN {<<>>}
    ELSE UNION { { <<x>> \o rest : rest \in Orders(S \ {x}) } : x \in S }

InitMap ==
    /\ WikiIdle /\ ScIdle /\ TsIdle /\ RpIdle /\ FIdle /\ ApIdle
    /\ DnsIdle /\ SpIdle /\ FrIdle
    /\ m_pc = "start"
    /\ m_urls \in SeqsUpTo(S3Urls, MaxUrls)
    /\ m_aws \in AwsStates
    /\ m_calls = <<>>
    /\ m_out = None

\* The call returns or raises.
MapUrls ==
    /\ m_pc = "start"
    /\ m_out' = map_s3_urls_to_public_urls(m_urls, m_aws)
    /\ \E order \in Orders({ m_urls[i].bucket : i \in 1..Len(m_urls) }) :
           m_calls' = IF m_out'.raised THEN <<>> ELSE order
    /\ m_pc' = "done"
    /\ UNCHANGED <<m_urls, m_aws>>
    /\ UNCHANGED <<wikiVars, scVars, tsVars, rpVars, fVars, apVars, dnsVars, spVars, frVars>>

NextMap == MapUrls

SpecMap == InitMap /\ [][NextMap]_vars

\* The call returned a dictionary.
MapReturned == m_pc = "done" /\ ~m_out.raised

\* All DNS names found for the distributions of the bucket.
NamesOfBucket(bucket) ==
    UNION { Elements(m_aws[find_cf_for_s3_bucket(bucket)[i]]) :
                i \in 1..Len(find_cf_for_s3_bucket(bucket)) }

-----------------------------------------------------------------------------
(* C22 *)

\* C22: in the dictionary returned by map_s3_urls_to_public_urls, S3 URLs
\* whose buckets do not have a resolvable public DNS name are omitted: the
\* dictionary has no entry for such a URL.
C22_UnresolvedUrlsAreOmitted ==
    MapReturned =>
        \A i \in 1..Len(m_urls) :
            NamesOfBucket(m_urls[i].bucket) = {} => m_urls[i] \notin DOMAIN m_out.dict

-----------------------------------------------------------------------------
(* C28 *)

-----------------------------------------------------------------------------
(* C23 *)

\* The call returned two or more entries.
C23_Case == Returned /\ Len(result.page_results) >= 2

\* The earliest of the entries after the first with the highest title_score
\* among them.
EarliestBestLater(r) ==
    CHOOSE j \in 2..Len(r) :
        /\ \A k \in 2..Len(r) : r[j].title_score >= r[k].title_score
        /\ \A k \in 2..(j - 1) : r[k].title_score < r[j].title_score

\* C23: the test sorted_results[0] != results[0], a value comparison after a
\* stable descending sort by title_score, passes exactly when the first
\* surviving candidate's title_score is greater than or equal to that of
\* every other surviving candidate; a tie for the highest title_score with a
\* later candidate does not force ambiguity, and the second entry is then the
\* earliest later candidate with the highest title_score of the rest.
C23_FirstIsTopIffNoHigherTitleScore ==
    C23_Case =>
        LET r == result.page_results
            sorted_results == SortedByTitleScore(r)
        IN  /\ (sorted_results[1] = r[1]) <=>
                   \A k \in 2..Len(r) : r[1].title_score >= r[k].title_score
            /\ (sorted_results[1] = r[1]) => sorted_results[2] = r[EarliestBestLater(r)]
            /\ result.has_unambigous_match =>
                   \A k \in 2..Len(r) : r[1].title_score >= r[k].title_score

\* The first candidate ties with a later one for the highest title_score, a
\* third has a lower one, and the match is unambiguous.
C23_Witness ==
    /\ C23_Case
    /\ Len(result.page_results) = 3
    /\ \E k \in 2..3 : result.page_results[k].title_score = result.page_results[1].title_score
    /\ \E k \in 2..3 : result.page_results[k].title_score < result.page_results[1].title_score
    /\ result.has_unambigous_match

-----------------------------------------------------------------------------
(* C24 *)

\* The call returned an unambiguous match with two or more entries.
C24_Case == C23_Case /\ result.has_unambigous_match

\* The entry compared with the first one: the second of the entries sorted by
\* title_score.
SecondByTitleScore == SortedByTitleScore(result.page_results)[2]

\* C24 as stated: an unambiguous result's first entry exceeds the total_score
\* of every other entry by more than unambiguous_cutoff.
C24_FirstExceedsEveryOtherEntry ==
    C24_Case =>
        \A k \in 2..Len(result.page_results) :
            EntryTotal(result.page_results[1]) - EntryTotal(result.page_results[k])
                > unambiguous_cutoff

\* C24 (amended): an unambiguous result of two or more entries has a first
\* entry of the highest title_score whose total_score is above
\* unambiguous_threshold and exceeds by more than unambiguous_cutoff the
\* total_score of the one entry ranked second by title_score; the other
\* entries are not compared.
C24_FirstExceedsSecondByTitleScore ==
    C24_Case =>
        /\ \A k \in 2..Len(result.page_results) :
               result.page_results[1].title_score >= result.page_results[k].title_score
        /\ EntryTotal(result.page_results[1]) > unambiguous_threshold
        /\ EntryTotal(result.page_results[1]) - EntryTotal(SecondByTitleScore)
               > unambiguous_cutoff
        /\ result.has_unambigous_match =
               CompareTopTwo(result.page_results, unambiguous_threshold, unambiguous_cutoff)

\* An unambiguous result of three distinct pages, under a positive
\* min_notability_score, whose third entry has a total_score within
\* unambiguous_cutoff of the first entry's.
C24_Witness ==
    /\ C24_Case
    /\ min_notability_score > 0
    /\ Len(result.page_results) = 3
    /\ \A i, j \in 1..3 :
           i # j => result.page_results[i].page.id # result.page_results[j].page.id
    /\ EntryTotal(result.page_results[1]) - EntryTotal(result.page_results[3])
           <= unambiguous_cutoff
    /\ EntryTotal(result.page_results[1]) - EntryTotal(result.page_results[2])
           > unambiguous_cutoff

-----------------------------------------------------------------------------
(* C25 *)

\* The positions of the candidates whose title contains "disambiguation".
DisambiguationPositions ==
    { i \in 1..Len(pages) : wiki_is_disambiguation_page(pages[i]) }

\* The positions of the candidates whose notability is computed unless the
\* call has failed before: neither disambiguation pages nor list pages.
ScoredPositions ==
    { i \in 1..Len(pages) :
        ~wiki_is_disambiguation_page(pages[i]) /\ ~wiki_is_list_page(pages[i]) }

\* C25: disambiguation classification comes before every other filter. The
\* first candidate whose title contains "disambiguation" is recorded as
\* disambiguation_page and the match is not unambiguous, whether or not the
\* candidate exists, is in the MAIN namespace, is notable enough or is also a
\* list page; its notability is never computed, so a call fails only on a
\* candidate that is neither a disambiguation page nor a list page.
C25_DisambiguationComesFirst ==
    pc = "done" =>
        /\ result.raised =>
               \E i \in ScoredPositions : NotabilityRaises(pages[i])
        /\ (~result.raised /\ DisambiguationPositions # {}) =>
               /\ \E i \in DisambiguationPositions :
                      /\ result.disambiguation_page = pages[i]
                      /\ \A j \in DisambiguationPositions : i <= j
               /\ ~result.has_unambigous_match
               /\ \A k \in 1..Len(result.page_results) :
                      ~wiki_is_disambiguation_page(result.page_results[k].page)
        /\ (~result.raised /\ DisambiguationPositions = {}) =>
               result.disambiguation_page = None

\* The only candidates are two disambiguation pages: the first does not
\* exist, is outside the MAIN namespace and is also a list page; fetching the
\* properties of the second would fail. The call returns with the first one
\* recorded.
C25_Witness ==
    /\ Returned
    /\ pages = <<PageListDisambig, PageDisambigCaps>>
    /\ result.disambiguation_page = PageListDisambig
    /\ ~result.has_unambigous_match

-----------------------------------------------------------------------------
(* C26 *)

\* C26: in every result, an unambiguous match has no disambiguation page and
\* at least one entry; the result is truthy exactly when page_results is not
\* empty, so a result holding only a disambiguation page is falsy and an
\* unambiguous result is truthy.
C26_ResultInvariants ==
    Returned =>
        /\ result.has_unambigous_match =>
               /\ result.disambiguation_page = None
               /\ Len(result.page_results) >= 1
               /\ ResultIsTruthy(result)
        /\ ResultIsTruthy(result) <=> Len(result.page_results) >= 1
        /\ (result.disambiguation_page # None /\ Len(result.page_results) = 0) =>
               ~ResultIsTruthy(result)

\* A result that holds a disambiguation page and no entry, and is falsy.
C26_Witness ==
    /\ Returned
    /\ result.disambiguation_page # None
    /\ Len(result.page_results) = 0
    /\ Len(pages) >= 2
    /\ ~ResultIsTruthy(result)

-----------------------------------------------------------------------------
(* identify_speakers: one call of the action on a transcript item *)

\* A character of a body.
Ch(c) == [ch |-> c]

BodyChars == { Ch("a"), Ch("b") }

\* The bodies an item can have: None, the empty string, or a text.
SpBodies == {None} \cup { Str(t) : t \in SeqsUpTo(BodyChars, MaxBodyLen) }

ItemTypes == {"doc", "resource"}

\* An Item object; id stands for the object's identity.
Item(id, type, body) == [id |-> id, type |-> type, body |-> body]

SpItems == { Item(1, type, body) : type \in ItemTypes, body \in SpBodies }

\* `not item.body`
BodyIsFalsy(body) == IF body = None THEN TRUE ELSE body.str = <<>>

\* item.derived_copy(type=..., body=...): a new object.
derived_copy(item, type, body) == Item(item.id + 1, type, body)

\* The speaker ids a label can carry; the empty one is a label without the
\* attribute.
SpeakerIds == {"0", "1", ""}

\* A match of find_speaker_labels.
Match(start_offset, end_offset, attribute_value) ==
    [start_offset |-> start_offset, end_offset |-> end_offset,
     attribute_value |-> attribute_value]

Matches(n) ==
    { Match(a, b, v) : a \in 0..(n - 1), b \in 1..n, v \in SpeakerIds }

\* What find_speaker_labels can return for a body of n characters: matches in
\* the order of the text, inside the body and not overlapping.
LabelLists(n) ==
    { l \in SeqsUpTo(Matches(n), n) :
        /\ \A i \in 1..Len(l) : l[i].start_offset < l[i].end_offset
        /\ \A i \in 1..(Len(l) - 1) : l[i].end_offset <= l[i + 1].start_offset }

\* The outcomes of the LLM completion followed by fuzzy_parse_json: text that
\* is not JSON, or a mapping from speaker ids to names (possibly empty).
NoJson == [decoded |-> FALSE, mapping |-> {}]
Mapping(pairs) == [decoded |-> TRUE, mapping |-> pairs]
Completions ==
    { NoJson, Mapping({}), Mapping({<<"0", "Alice">>}),
      Mapping({<<"0", "Alice">>, <<"1", "Bob">>}) }

\* speaker_mapping.get(speaker_id, f"SPEAKER {speaker_id}")
SpeakerName(mapping, speaker_id) ==
    IF \E pair \in mapping : pair[1] = speaker_id
    THEN [name |-> (CHOOSE pair \in mapping : pair[1] = speaker_id)[2]]
    ELSE [speaker |-> speaker_id]

\* html_speaker_id_span(f"**{new_speaker_name}:**", speaker_id)
html_speaker_id_span(new_speaker_name, speaker_id) ==
    [span |-> new_speaker_name, speaker_id |-> speaker_id]

\* replace_multiple: every range of the text replaced by its new span.
RECURSIVE replace_multiple(_, _)
replace_multiple(text, replacements) ==
    IF replacements = <<>> THEN text
    ELSE LET last == replacements[Len(replacements)]
             rest == SubSeq(replacements, 1, Len(replacements) - 1)
         IN  replace_multiple(
                 SubSeq(text, 1, last[1]) \o <<last[3]>>
                     \o SubSeq(text, last[2] + 1, Len(text)),
                 rest)

Replacements(labels, mapping) ==
    [i \in 1..Len(labels) |->
        <<labels[i].start_offset, labels[i].end_offset,
          html_speaker_id_span(SpeakerName(mapping, labels[i].attribute_value),
                               labels[i].attribute_value)>>]

SpReturn(item) == [raised |-> FALSE, error |-> "", item |-> item]
SpRaise(error) == [raised |-> TRUE, error |-> error, item |-> None]

\* Variant of WithoutLabels that returns a derived copy of the item.
WithoutLabelsAsCopy(item) == SpReturn(derived_copy(item, "doc", item.body))

\* `return item` when no speaker label was found.
WithoutLabels(item) == SpReturn(item)

\* The rest of the action once labels were found and the completion came
\* back: parse the mapping, build the replacements, return a derived copy.
WithLabels(item, labels, completion) ==
    IF ~completion.decoded \/ completion.mapping = {}
    THEN SpRaise("ApiResultError")
    ELSE IF \E i \in 1..Len(labels) : labels[i].attribute_value = ""
    THEN SpRaise("InvalidInput")
    ELSE SpReturn(derived_copy(item, "doc",
             Str(replace_multiple(item.body.str,
                                  Replacements(labels, completion.mapping)))))

InitSpeakers ==
    /\ WikiIdle /\ ScIdle /\ TsIdle /\ RpIdle /\ FIdle /\ ApIdle
    /\ DnsIdle /\ MapIdle /\ FrIdle
    /\ sp_pc = "start"
    /\ sp_item \in SpItems
    /\ sp_given = sp_item
    /\ sp_labels = <<>>
    /\ sp_completions = 0
    /\ sp_out = None

\* The check of the body and the search for speaker labels.
FindLabels ==
    /\ sp_pc = "start"
    /\ IF BodyIsFalsy(sp_item.body)
       THEN /\ sp_out' = SpRaise("InvalidInput")
            /\ sp_pc' = "raised"
            /\ UNCHANGED sp_labels
       ELSE \E speaker_labels \in LabelLists(Len(sp_item.body.str)) :
                /\ sp_labels' = speaker_labels
                /\ IF speaker_labels = <<>>
                   THEN sp_out' = WithoutLabels(sp_item) /\ sp_pc' = "returned"
                   ELSE sp_out' = None /\ sp_pc' = "labelled"
    /\ UNCHANGED <<sp_given, sp_item, sp_completions>>
    /\ UNCHANGED <<wikiVars, scVars, tsVars, rpVars, fVars, apVars, dnsVars, mapVars, frVars>>

\* The LLM completion and everything after it.
CompleteAndReplace ==
    /\ sp_pc = "labelled"
    /\ sp_completions' = sp_completions + 1
    /\ \E completion \in Completions :
           /\ sp_out' = WithLabels(sp_item, sp_labels, completion)
           /\ sp_pc' = IF sp_out'.raised THEN "raised" ELSE "returned"
    /\ UNCHANGED <<sp_given, sp_item, sp_labels>>
    /\ UNCHANGED <<wikiVars, scVars, tsVars, rpVars, fVars, apVars, dnsVars, mapVars, frVars>>

NextSpeakers == FindLabels \/ CompleteAndReplace

SpecSpeakers == InitSpeakers /\ [][NextSpeakers]_vars

\* The call has ended.
SpEnded == sp_pc \in {"returned", "raised"}

\* C29: a transcript without speaker labels is left untouched: when
\* find_speaker_labels finds no label in a non-empty body the action returns
\* the input item itself, unchanged, and makes no LLM completion; when the
\* body is empty it raises InvalidInput without searching for labels or
\* making a completion. The input item is not modified in any case.
C29_NoLabelsNoChange ==
    /\ sp_item = sp_given
    /\ (SpEnded /\ ~BodyIsFalsy(sp_given.body) /\ sp_labels = <<>>) =>
           /\ sp_out = SpReturn(sp_item)
           /\ sp_out.item.id = sp_given.id
           /\ sp_completions = 0
    /\ (SpEnded /\ BodyIsFalsy(sp_given.body)) =>
           /\ sp_out = SpRaise("InvalidInput")
           /\ sp_labels = <<>>
           /\ sp_completions = 0
    /\ (SpEnded /\ sp_labels # <<>>) => sp_completions = 1

\* A call on a body of two characters without speaker labels has returned.
C29_Witness ==
    /\ sp_pc = "returned"
    /\ ~BodyIsFalsy(sp_given.body)
    /\ Len(sp_given.body.str) = 2
    /\ sp_labels = <<>>
    /\ sp_out.item = sp_given

-----------------------------------------------------------------------------
(* insert_frame_captures: one call of the action on a timestamped transcript *)

\* The word tokens of a body: the opening tag of a span with timestamp 1 or
\* 2, the closing tag of a span, and a word.
TokKinds == {"t1", "t2", "close", "word"}

\* The characters of a token.
TokChars(tok) ==
    CASE tok = "t1"    -> <<Ch("<"), Ch("1")>>
      [] tok = "t2"    -> <<Ch("<"), Ch("2")>>
      [] tok = "close" -> <<Ch("<"), Ch("/")>>
      [] OTHER         -> <<Ch("w")>>

\* The text made of the tokens.
RECURSIVE Flatten(_)
Flatten(toks) ==
    IF toks = <<>> THEN <<>> ELSE TokChars(Head(toks)) \o Flatten(Tail(toks))

\* The word tokens of a text from its character at `from` on, with the offset
\* of each (extractor.wordtoks and extractor.offsets).
RECURSIVE WordToksFrom(_, _)
WordToksFrom(text, from) ==
    IF from > Len(text) THEN <<>>
    ELSE IF text[from] = Ch("<") /\ from < Len(text)
    THEN LET tok == CASE text[from + 1] = Ch("1") -> "t1"
                      [] text[from + 1] = Ch("2") -> "t2"
                      [] OTHER                    -> "close"
         IN  <<[tok |-> tok, offset |-> from - 1]>> \o WordToksFrom(text, from + 2)
    ELSE <<[tok |-> "word", offset |-> from - 1]>> \o WordToksFrom(text, from + 1)

WordToks(text) == WordToksFrom(text, 1)

\* extractor.extract_all(): (timestamp, index, offset) of every timestamped
\* opening tag, in the order of the text.
RECURSIVE TimestampsFrom(_, _)
TimestampsFrom(wordtoks, index) ==
    IF index >= Len(wordtoks) THEN <<>>
    ELSE LET w == wordtoks[index + 1]
         IN  (IF w.tok \in {"t1", "t2"}
              THEN <<[timestamp |-> IF w.tok = "t1" THEN 1 ELSE 2,
                      index |-> index, offset |-> w.offset]>>
              ELSE <<>>) \o TimestampsFrom(wordtoks, index + 1)

timestamp_matches(text) == TimestampsFrom(WordToks(text), 0)

\* An item with a format.
FrameItem(id, type, format, body) ==
    [id |-> id, type |-> type, format |-> format, body |-> body]

FrBodies == {None} \cup { Str(Flatten(toks)) : toks \in SeqsUpTo(TokKinds, MaxToks) }

FrItems == { FrameItem(1, "doc", "html", body) : body \in FrBodies }

\* The paths capture_frames can give a frame.
FramePaths == {"f1.jpg", "f2.jpg"}

\* What capture_frames can return for n timestamps: one path for each.
FramePathLists(n) == [1..n -> FramePaths]

\* The index of the token after the first "</span>" at or after index, or -1
\* when there is no such "</span>" (KeyError). with_eof says whether the
\* tokens end with an end-of-text token, which a "</span>" at the end of the
\* text then has after it.
InsertIndex(wordtoks, index, with_eof) ==
    LET closes == { j \in index..(Len(wordtoks) - 1) : wordtoks[j + 1].tok = "close" }
    IN  IF closes = {} THEN -1
        ELSE LET j == CHOOSE j \in closes : \A k \in closes : j <= k
             IN  IF j + 1 < Len(wordtoks) \/ with_eof THEN j + 1 ELSE -1

\* extractor.offsets[insert_index]
OffsetOf(text, wordtoks, insert_index) ==
    IF insert_index < Len(wordtoks) THEN wordtoks[insert_index + 1].offset ELSE Len(text)

\* md_para(html_img(as_file_url(frame_path), f"Frame at {timestamp} seconds", ...))
FrameImage(frame_path, timestamp) == [img |-> frame_path, timestamp |-> timestamp]

\* Variant of FramePathFor that takes the path at the rank of i among the
\* kept indices.
FramePathOfKeptRank(frame_paths, kept_indices, i) ==
    frame_paths[Cardinality({ k \in kept_indices : k <= i })]

\* frame_path = frame_paths[i]
FramePathFor(frame_paths, kept_indices, i) == frame_paths[i + 1]

\* The insertions the loop builds for the timestamps from position i on; an
\* offset of -1 stands for the ContentError raised at that timestamp.
RECURSIVE InsertionsFrom(_, _, _, _, _, _)
InsertionsFrom(text, matches, frame_paths, kept_indices, with_eof, i) ==
    IF i >= Len(matches) THEN <<>>
    ELSE IF i \notin kept_indices
    THEN InsertionsFrom(text, matches, frame_paths, kept_indices, with_eof, i + 1)
    ELSE LET wordtoks     == WordToks(text)
             insert_index == InsertIndex(wordtoks, matches[i + 1].index, with_eof)
             new_offset   == IF insert_index = -1 THEN -1
                             ELSE OffsetOf(text, wordtoks, insert_index)
         IN  <<[offset |-> new_offset,
                insertion |-> FrameImage(FramePathFor(frame_paths, kept_indices, i),
                                         matches[i + 1].timestamp)]>>
             \o InsertionsFrom(text, matches, frame_paths, kept_indices, with_eof, i + 1)

\* sorted(insertions, key=offset): stable.
RECURSIVE InsertByOffset(_, _)
InsertByOffset(x, s) ==
    IF s = <<>> THEN <<x>>
    ELSE IF Head(s).offset <= x.offset
    THEN <<Head(s)>> \o InsertByOffset(x, Tail(s))
    ELSE <<x>> \o s

RECURSIVE SortedByOffset(_)
SortedByOffset(s) ==
    IF s = <<>> THEN <<>>
    ELSE InsertByOffset(s[Len(s)], SortedByOffset(SubSeq(s, 1, Len(s) - 1)))

\* The chunks insert_multiple joins: the text up to each offset, then the
\* insertion.
RECURSIVE JoinChunks(_, _, _)
JoinChunks(text, sorted_insertions, last_end) ==
    IF sorted_insertions = <<>> THEN SubSeq(text, last_end + 1, Len(text))
    ELSE LET first == Head(sorted_insertions)
         IN  SubSeq(text, last_end + 1, first.offset) \o <<first.insertion>>
             \o JoinChunks(text, Tail(sorted_insertions), first.offset)

insert_multiple(text, insertions) == JoinChunks(text, SortedByOffset(insertions), 0)

FrReturn(item) == [raised |-> FALSE, error |-> "", item |-> item]
FrRaise(error) == [raised |-> TRUE, error |-> error, item |-> None]

\* The action from the filtering of the frames on.
InsertFrames(item, frame_paths, kept_indices, with_eof) ==
    LET text       == item.body.str
        insertions == InsertionsFrom(text, timestamp_matches(text), frame_paths,
                                     kept_indices, with_eof, 0)
    IN  IF \E k \in 1..Len(insertions) : insertions[k].offset = -1
        THEN FrRaise("ContentError")
        ELSE FrReturn(FrameItem(item.id + 1, "doc", "md_html",
                                Str(insert_multiple(text, insertions))))

InitFrames ==
    /\ WikiIdle /\ ScIdle /\ TsIdle /\ RpIdle /\ FIdle /\ ApIdle
    /\ DnsIdle /\ MapIdle /\ SpIdle
    /\ fr_pc = "start"
    /\ fr_item \in FrItems
    /\ fr_given = fr_item
    /\ fr_frames = <<>>
    /\ fr_kept = {}
    /\ fr_out = None

\* The checks of the body and of the video, and the capture of one frame for
\* each timestamp.
CaptureFrames ==
    /\ fr_pc = "start"
    /\ \E has_video \in BOOLEAN :
          IF BodyIsFalsy(fr_item.body) \/ ~has_video
          THEN /\ fr_out' = FrRaise("InvalidInput")
               /\ fr_pc' = "raised"
               /\ UNCHANGED fr_frames
          ELSE \E frame_paths \in FramePathLists(Len(timestamp_matches(fr_item.body.str))) :
                   /\ fr_frames' = frame_paths
                   /\ fr_pc' = "captured"
                   /\ UNCHANGED fr_out
    /\ UNCHANGED <<fr_given, fr_item, fr_kept>>
    /\ UNCHANGED <<wikiVars, scVars, tsVars, rpVars, fVars, apVars, dnsVars, mapVars, spVars>>

\* filter_similar_frames, the insertions and the output item.
FilterAndInsert ==
    /\ fr_pc = "captured"
    /\ \E unique_indices \in SUBSET (0..(Len(fr_frames) - 1)), with_eof \in BOOLEAN :
           /\ fr_kept' = unique_indices
           /\ fr_out' = InsertFrames(fr_item, fr_frames, unique_indices, with_eof)
           /\ fr_pc' = IF fr_out'.raised THEN "raised" ELSE "returned"
    /\ UNCHANGED <<fr_given, fr_item, fr_frames>>
    /\ UNCHANGED <<wikiVars, scVars, tsVars, rpVars, fVars, apVars, dnsVars, mapVars, spVars>>

NextFrames == CaptureFrames \/ FilterAndInsert

SpecFrames == InitFrames /\ [][NextFrames]_vars

\* The images of a text, in its order, and the text without them.
IsImage(x) == "img" \in DOMAIN x
ImagesOf(text) == SelectSeq(text, IsImage)
IsNoImage(x) == ~IsImage(x)
WithoutImages(text) == SelectSeq(text, IsNoImage)

\* The images expected for the kept timestamps from position i on.
RECURSIVE KeptImagesFrom(_)
KeptImagesFrom(i) ==
    LET matches == timestamp_matches(fr_given.body.str) IN
    IF i >= Len(matches) THEN <<>>
    ELSE (IF i \in fr_kept
          THEN <<FrameImage(fr_frames[i + 1], matches[i + 1].timestamp)>>
          ELSE <<>>) \o KeptImagesFrom(i + 1)

\* C30: a returned call has inserted exactly one image for every timestamp
\* whose index filter_similar_frames returned and none for the others; the
\* image of timestamp i references frame_paths[i]; the input item is not
\* modified, and the output body without the images is the input body.
C30_OneImagePerKeptTimestamp ==
    /\ fr_item = fr_given
    /\ fr_pc = "returned" =>
           /\ ImagesOf(fr_out.item.body.str) = KeptImagesFrom(0)
           /\ Len(ImagesOf(fr_out.item.body.str)) = Cardinality(fr_kept)
           /\ WithoutImages(fr_out.item.body.str) = fr_given.body.str
           /\ fr_out.item.id # fr_given.id

\* A returned call on a body with two timestamps whose frames have different
\* paths, of which only the second was kept.
C30_Witness ==
    /\ fr_pc = "returned"
    /\ Len(fr_frames) = 2
    /\ fr_frames[1] # fr_frames[2]
    /\ fr_kept = {1}
    /\ Len(ImagesOf(fr_out.item.body.str)) = 1

=============================================================================
